---- MODULE Spec2Model ----
(***************************************************************************)
(* A model of the rustyclaw gateway: the session store (session/mod.rs),   *)
(* the shared-secret authentication (gateway/auth.rs, gateway/server.rs,   *)
(* gateway/ws.rs) and the secret comparison (security/secret_equal.rs).    *)
(***************************************************************************)
EXTENDS Integers, Sequences, FiniteSets, TLC

\* ------------------------------------------------------------------------
\* Bounds of the model
\* ------------------------------------------------------------------------
\* max_sessions is drawn from 0..MaxCap
MaxCap == 2
\* the clock (Utc::now) runs from 0 to MaxClock
MaxClock == 1
\* the sequential caller constructs at most MaxIds sessions (Uuid::new_v4 is
\* a fresh id)
MaxIds == 3
\* a session holds at most MaxMsgs messages
MaxMsgs == 2
\* the concurrent callers construct at most RaceIds sessions
RaceIds == 2

Keys == {"k1", "k2", "k3"}
Tasks == {"t1", "t2"}
\* the key concurrent turns share, the keys concurrent callers fill the store
\* with, and the caller of the sequential runs
TurnKeys == {"k1"}
RaceKeys == {"k1", "k2"}
SeqTasks == {"t1"}
Texts == {"hello", "hi"}

\* Option<T>: None is the empty sequence, Some(x) is <<x>>
None == <<>>
Some(x) == <<x>>
IsSome(o) == o # <<>>
Unwrap(o) == o[1]

VARIABLES
  \* --- session store (SessionManager) ---
  max_sessions,   \* SessionManager.max_sessions
  sessions,       \* SessionManager.sessions: key -> Session
  now,            \* the clock read by Utc::now()
  nextId,         \* number of ids handed out by Uuid::new_v4()
  pc,             \* per task: position inside get_or_create
  arg,            \* per task: the key of the get_or_create in flight
  pending,        \* per task: the local `session` of get_or_create
  held,           \* per task: the copy the caller holds (last returned value)
  borrowed,       \* per task: that copy as it was when it was returned
  last,           \* the last store operation that completed
  \* --- one Session object (Session::add_*) ---
  sess,           \* the Session
  appends,        \* number of add_* calls made on it since Session::new
  \* --- gateway (GatewayState, auth_middleware, ws_handler) ---
  auth_token,     \* GatewayState.auth_token
  http,           \* the last HTTP exchange
  ws,             \* the WebSocket connection
  \* --- safe_equal_secret ---
  sec,            \* the comparison in progress
  \* --- one streaming call (AnthropicProvider::stream) ---
  records,        \* the records the upstream sends for the call
  upstream,       \* the bytes of the response body
  uend,           \* how the body ends: "eof", or "error" (a network error)
  upos,           \* number of bytes the producer has read
  ppc,            \* the producer task: "read", "send" or "done"
  buffer,         \* the producer's `buffer`
  current_event_type, \* the producer's `current_event_type`
  tosend,         \* the event of the send in progress, and what follows it
  capacity,       \* the capacity of the channel
  chan,           \* the events in the channel
  rx,             \* the receiver: "open", "dropped" or "ended" (saw None)
  received,       \* the events the consumer has received
  \* --- the locks of GatewayState, as the gateway handlers take them ---
  handlers,       \* per gateway task: the handler it runs and its position
  rwlocks,        \* per shared resource: the readers and the writer
  \* --- ToolRegistry ---
  deny_list,      \* ToolRegistry.deny_list
  allow_list,     \* ToolRegistry.allow_list
  tools,          \* ToolRegistry.tools: name -> RegisteredTool
  registered,     \* the tools handed to register, in call order
  listed,         \* the value of the last list_definitions, if still current
  \* --- the built-in tools (execute_tool) ---
  files,          \* the file system: path -> content, if the file exists
  overflow_checks, \* whether the build checks integer overflow
  tcall,          \* the tool call made, if any (n = 1), and its outcome
  proc,           \* the process of an exec call, its timer and the time passed
  \* --- AnthropicProvider::complete and build_request_body ---
  up_response,    \* the upstream's answer to the request of complete()
  completion,     \* what complete() returned, if it was called
  cmpl_request,   \* the CompletionRequest of build_request_body
  req_body,       \* the request body built from it, if it was built
  stream_result,  \* what stream() returned for that answer, if it was called
  \* --- the configuration and the handlers that reflect it ---
  config,         \* GatewayState.config
  config_reply,   \* the last config response, and the route that gave it
  \* --- CronService ---
  cron_running,   \* CronService.running
  cron_loops,     \* per spawned tick loop: its position
  \* --- build_session_key ---
  key_args,       \* the identities of two conversations
  session_keys,   \* the session keys built for them, if they were built
  \* --- the operations that take locks, under tokio's fair RwLock ---
  running_ops,    \* per task: the operation it runs and its position
  fair_locks      \* per shared resource: readers, writer and FIFO of waiters

vars == <<max_sessions, sessions, now, nextId, pc, arg, pending, held,
          borrowed, last, sess, appends, auth_token, http, ws, sec,
          records, upstream, uend, upos, ppc, buffer, current_event_type,
          tosend, capacity, chan, rx, received, handlers, rwlocks,
          deny_list, allow_list, tools, registered, listed,
          files, overflow_checks, tcall, proc,
          up_response, completion, cmpl_request, req_body, stream_result,
          config, config_reply, cron_running, cron_loops,
          key_args, session_keys, running_ops, fair_locks>>

storeVars == <<max_sessions, sessions, nextId, pc, arg, pending, held,
               borrowed, last>>
objVars == <<sess, appends>>
gwVars == <<auth_token, http, ws>>
secVars == <<sec>>
strVars == <<records, upstream, uend, upos, ppc, buffer, current_event_type,
             tosend, capacity, chan, rx, received>>
lockVars == <<handlers, rwlocks>>
toolVars == <<deny_list, allow_list, tools, registered, listed>>
execVars == <<files, overflow_checks, tcall, proc>>
provVars == <<up_response, completion, cmpl_request, req_body, stream_result>>
cfgVars == <<config, config_reply>>
cronVars == <<cron_running, cron_loops>>
keyVars == <<key_args, session_keys>>
fairVars == <<running_ops, fair_locks>>
moreVars == <<cfgVars, cronVars, keyVars, fairVars>>
extVars == <<lockVars, toolVars, execVars, provVars, moreVars>>

\* ------------------------------------------------------------------------
\* Session (session/mod.rs)
\* ------------------------------------------------------------------------
TextContent(text) == [tag |-> "Text", text |-> text, blocks |-> <<>>]
BlocksContent(blocks) == [tag |-> "Blocks", text |-> "", blocks |-> blocks]

ToolResultBlock(tool_use_id, content, is_error) ==
  [type |-> "tool_result", tool_use_id |-> tool_use_id, content |-> content,
   is_error |-> IF is_error THEN Some(TRUE) ELSE None]

ToolUseBlock(id, name) ==
  [type |-> "tool_use", tool_use_id |-> id, content |-> name, is_error |-> None]

\* Session::new
Session_new(key, agent_id, channel, t, id) ==
  [id |-> id, key |-> key, agent_id |-> agent_id, channel |-> channel,
   messages |-> <<>>, created_at |-> t, updated_at |-> t]

\* a push at the front of the history instead of its end
PushMessage_Front(s, m, t) ==
  [s EXCEPT !.messages = <<m>> \o @, !.updated_at = t]

\* self.messages.push(m); self.updated_at = Utc::now()
PushMessage(s, m, t) ==
  [s EXCEPT !.messages = Append(@, m), !.updated_at = t]

add_user_message(s, text, t) ==
  PushMessage(s, [role |-> "user", content |-> TextContent(text)], t)

add_assistant_message(s, text, t) ==
  PushMessage(s, [role |-> "assistant", content |-> TextContent(text)], t)

add_tool_result(s, tool_use_id, content, is_error, t) ==
  PushMessage(s, [role |-> "user",
                  content |-> BlocksContent(
                     <<ToolResultBlock(tool_use_id, content, is_error)>>)], t)

\* one message pushed per block instead of one message holding the blocks
add_assistant_tool_use_PerBlock(s, blocks, t) ==
  [s EXCEPT
     !.messages = @ \o [i \in 1..Len(blocks) |->
                          [role |-> "assistant",
                           content |-> BlocksContent(<<blocks[i]>>)]],
     !.updated_at = t]

add_assistant_tool_use(s, blocks, t) ==
  PushMessage(s, [role |-> "assistant", content |-> BlocksContent(blocks)], t)

message_count(s) == Len(s.messages)

\* ------------------------------------------------------------------------
\* HashMap<String, Session>
\* ------------------------------------------------------------------------
MapInsert(m, k, v) == [x \in DOMAIN m \cup {k} |-> IF x = k THEN v ELSE m[x]]
MapRemove(m, k) == [x \in DOMAIN m \ {k} |-> m[x]]
MapGet(m, k) == IF k \in DOMAIN m THEN Some(m[k]) ELSE None
MapLen(m) == Cardinality(DOMAIN m)
EmptyMap == [x \in {} |-> 0]

\* max_by_key instead of min_by_key: the most recently updated key
OldestKeys_Newest(m) ==
  {k \in DOMAIN m : \A o \in DOMAIN m : m[k].updated_at >= m[o].updated_at}

\* sessions.iter().min_by_key(|(_, s)| s.updated_at): a key whose updated_at
\* is the smallest; among equal ones the HashMap's iteration order decides
OldestKeys(m) ==
  {k \in DOMAIN m : \A o \in DOMAIN m : m[k].updated_at <= m[o].updated_at}

\* the maps get_or_create may be left with after its eviction step
EvictOldest(m, cap) ==
  IF MapLen(m) >= cap /\ DOMAIN m # {}
    THEN {MapRemove(m, k) : k \in OldestKeys(m)}
    ELSE {m}

\* ------------------------------------------------------------------------
\* SessionManager operations, one task per caller
\* ------------------------------------------------------------------------
\* what the last completed operation on the map was
GocKind(k) ==
  IF k \in DOMAIN sessions THEN "goc_overwrite"
  ELSE IF MapLen(sessions) >= max_sessions /\ DOMAIN sessions # {}
    THEN "goc_evict" ELSE "goc_insert"

UpdateKind(t) ==
  IF Unwrap(held[t]).key \notin DOMAIN sessions THEN "update_new"
  ELSE IF borrowed[t] = Some(sessions[Unwrap(held[t]).key])
    THEN "update_fresh" ELSE "update_stale"

\* get_or_create, lines 135-140: the lookup under the read lock
GocRead(t, k) ==
  /\ pc[t] = "idle"
  /\ IF k \in DOMAIN sessions
       THEN /\ held' = [held EXCEPT ![t] = Some(sessions[k])]
            /\ borrowed' = [borrowed EXCEPT ![t] = Some(sessions[k])]
            /\ UNCHANGED <<pc, arg, last>>
       ELSE /\ pc' = [pc EXCEPT ![t] = "goc_new"]
            /\ arg' = [arg EXCEPT ![t] = Some(k)]
            /\ UNCHANGED <<held, borrowed, last>>
  /\ UNCHANGED <<max_sessions, sessions, now, nextId, pending>>
  /\ UNCHANGED <<objVars, gwVars, secVars, strVars, extVars>>

\* get_or_create, line 142: Session::new, no lock held
GocNew(t, ids) ==
  /\ pc[t] = "goc_new"
  /\ nextId < ids
  /\ pending' = [pending EXCEPT ![t] =
        Some(Session_new(Unwrap(arg[t]), "main", "wa", now, nextId + 1))]
  /\ nextId' = nextId + 1
  /\ pc' = [pc EXCEPT ![t] = "goc_write"]
  /\ UNCHANGED <<max_sessions, sessions, now, arg, held, borrowed, last>>
  /\ UNCHANGED <<objVars, gwVars, secVars, strVars, extVars>>

\* get_or_create, lines 143-156: evict and insert under the write lock
GocWrite(t) ==
  /\ pc[t] = "goc_write"
  /\ \E m \in EvictOldest(sessions, max_sessions) :
        sessions' = MapInsert(m, Unwrap(arg[t]), Unwrap(pending[t]))
  /\ held' = [held EXCEPT ![t] = pending[t]]
  /\ borrowed' = [borrowed EXCEPT ![t] = pending[t]]
  /\ last' = GocKind(Unwrap(arg[t]))
  /\ pc' = [pc EXCEPT ![t] = "idle"]
  /\ arg' = [arg EXCEPT ![t] = None]
  /\ pending' = [pending EXCEPT ![t] = None]
  /\ UNCHANGED <<max_sessions, now, nextId>>
  /\ UNCHANGED <<objVars, gwVars, secVars, strVars, extVars>>

\* an update that only replaces a session already stored
update_IfPresent(m, session) ==
  IF session.key \in DOMAIN m THEN MapInsert(m, session.key, session) ELSE m

\* SessionManager::update: sessions.insert(session.key.clone(), session.clone())
update(m, session) == MapInsert(m, session.key, session)

\* a caller writes back the copy it holds; the copy is then the stored session
Update(t) ==
  /\ pc[t] = "idle"
  /\ IsSome(held[t])
  /\ sessions' = update(sessions, Unwrap(held[t]))
  /\ borrowed' = [borrowed EXCEPT ![t] = held[t]]
  /\ last' = UpdateKind(t)
  /\ UNCHANGED <<max_sessions, now, nextId, pc, arg, pending, held>>
  /\ UNCHANGED <<objVars, gwVars, secVars, strVars, extVars>>

\* SessionManager::get
Get(t, k) ==
  /\ pc[t] = "idle"
  /\ held' = [held EXCEPT ![t] = MapGet(sessions, k)]
  /\ borrowed' = [borrowed EXCEPT ![t] = MapGet(sessions, k)]
  /\ UNCHANGED <<max_sessions, sessions, now, nextId, pc, arg, pending, last>>
  /\ UNCHANGED <<objVars, gwVars, secVars, strVars, extVars>>

\* SessionManager::remove: the caller keeps the removed session
Remove(t, k) ==
  /\ pc[t] = "idle"
  /\ sessions' = MapRemove(sessions, k)
  /\ held' = [held EXCEPT ![t] = MapGet(sessions, k)]
  /\ borrowed' = [borrowed EXCEPT ![t] = MapGet(sessions, k)]
  /\ last' = "remove"
  /\ UNCHANGED <<max_sessions, now, nextId, pc, arg, pending>>
  /\ UNCHANGED <<objVars, gwVars, secVars, strVars, extVars>>

\* SessionManager::count, SessionManager::list_keys
count == MapLen(sessions)
list_keys == DOMAIN sessions

\* the copies a turn can make of s: the user's message or the assistant's reply
TurnResults(s, t) ==
  {add_user_message(s, "hello", t), add_assistant_message(s, "hello", t)}

\* a turn appends one message to the copy it holds (Session::add_*)
Turn(t) ==
  /\ pc[t] = "idle"
  /\ IsSome(held[t])
  /\ message_count(Unwrap(held[t])) < MaxMsgs
  /\ \E s \in TurnResults(Unwrap(held[t]), now) :
        held' = [held EXCEPT ![t] = Some(s)]
  /\ UNCHANGED <<max_sessions, sessions, now, nextId, pc, arg, pending,
                 borrowed, last>>
  /\ UNCHANGED <<objVars, gwVars, secVars, strVars, extVars>>

\* the clock advances
Tick ==
  /\ now < MaxClock
  /\ now' = now + 1
  /\ UNCHANGED <<storeVars, objVars, gwVars, secVars, strVars, extVars>>

\* SessionManager::new(max_sessions), max_sessions one of caps
StoreInit(caps) ==
  /\ max_sessions \in caps
  /\ sessions = EmptyMap
  /\ nextId = 0
  /\ pc = [t \in Tasks |-> "idle"]
  /\ arg = [t \in Tasks |-> None]
  /\ pending = [t \in Tasks |-> None]
  /\ held = [t \in Tasks |-> None]
  /\ borrowed = [t \in Tasks |-> None]
  /\ last = "new"

\* the store of the gateway: SessionManager::new(1000)
GatewaySessions == 1000

\* ------------------------------------------------------------------------
\* One Session object under a sequence of add_* calls
\* ------------------------------------------------------------------------
ObjInit ==
  /\ sess = Session_new("k", "main", "wa", 0, 0)
  /\ appends = 0

ObjCall(s) ==
  /\ message_count(sess) < MaxMsgs
  /\ sess' = s
  /\ appends' = appends + 1
  /\ UNCHANGED <<storeVars, now, gwVars, secVars, strVars, extVars>>

AddUserMessage == \E x \in Texts : ObjCall(add_user_message(sess, x, now))

AddAssistantMessage ==
  \E x \in Texts : ObjCall(add_assistant_message(sess, x, now))

AddToolResult ==
  \E x \in Texts, e \in BOOLEAN :
     ObjCall(add_tool_result(sess, "tu_1", x, e, now))

ToolUseBlocks ==
  {<<ToolUseBlock("tu_1", "Read")>>,
   <<ToolUseBlock("tu_1", "Read"), ToolUseBlock("tu_2", "exec")>>}

AddAssistantToolUse ==
  \E blocks \in ToolUseBlocks :
     ObjCall(add_assistant_tool_use(sess, blocks, now))

\* ------------------------------------------------------------------------
\* Byte strings (a &str is its UTF-8 bytes)
\* ------------------------------------------------------------------------
\* the longest token and the longest secret of the modelled inputs
MaxTokLen == 1
MaxSecretLen == 2

\* "Bearer ", "bearer ", "Basic ", "token=", "x=", '&'
StrBearer == <<66, 101, 97, 114, 101, 114, 32>>
StrBearerLower == <<98, 101, 97, 114, 101, 114, 32>>
StrBasic == <<66, 97, 115, 105, 99, 32>>
StrTokenEq == <<116, 111, 107, 101, 110, 61>>
StrXEq == <<120, 61>>
Amp == <<38>>

SeqsUpTo(S, n) == UNION {[1..k -> S] : k \in 0..n}

\* the configured tokens: non-empty strings over 'a', 'b'; a request may also
\* present the empty string
Tokens == SeqsUpTo({97, 98}, MaxTokLen) \ {<<>>}
Presented == Tokens \cup {<<>>}
\* the secrets compared: byte strings with a low, a middle and a high byte
SecretBytes == {0, 97, 98, 255}
Secrets == SeqsUpTo(SecretBytes, MaxSecretLen)

\* ------------------------------------------------------------------------
\* subtle::ConstantTimeEq and safe_equal_secret (security/secret_equal.rs)
\* ------------------------------------------------------------------------
RECURSIVE BitXor(_, _, _)
BitXor(a, b, n) ==
  IF n = 0 THEN 0
  ELSE (IF a % 2 = b % 2 THEN 0 ELSE 1) + 2 * BitXor(a \div 2, b \div 2, n - 1)

RECURSIVE BitOr(_, _, _)
BitOr(a, b, n) ==
  IF n = 0 THEN 0
  ELSE (IF a % 2 = 1 \/ b % 2 = 1 THEN 1 ELSE 0)
         + 2 * BitOr(a \div 2, b \div 2, n - 1)

\* u8::wrapping_neg
WrappingNeg(x) == (256 - x) % 256

\* the shift without the OR with the negation: only bit 7 of a ^ b is seen
ByteCtEq_NoNeg(a, b) ==
  LET x == BitXor(a, b, 8)
      y == x \div 128
  IN BitXor(y, 1, 8)

\* u8::ct_eq: x = a ^ b; y = (x | x.wrapping_neg()) >> 7; y ^ 1
ByteCtEq(a, b) ==
  LET x == BitXor(a, b, 8)
      y == BitOr(x, WrappingNeg(x), 8) \div 128
  IN BitXor(y, 1, 8)

\* u8 &= u8 on the values 0 and 1
BitAnd1(x, y) == IF x = 1 /\ y = 1 THEN 1 ELSE 0

\* <[u8]>::ct_eq: 0 on a length mismatch, else the AND of ct_eq of every pair
RECURSIVE CtFold(_, _, _, _)
CtFold(a, b, i, x) ==
  IF i > Len(a) THEN x
  ELSE CtFold(a, b, i + 1, BitAnd1(x, ByteCtEq(a[i], b[i])))

ct_eq(a, b) == IF Len(a) # Len(b) THEN 0 ELSE CtFold(a, b, 1, 1)

\* safe_equal_secret(provided, expected), both Option<&str>
safe_equal_secret(provided, expected) ==
  IF ~IsSome(provided) \/ ~IsSome(expected) THEN FALSE
  ELSE IF Len(Unwrap(provided)) # Len(Unwrap(expected)) THEN FALSE
  ELSE ct_eq(Unwrap(provided), Unwrap(expected)) = 1

\* verify_token (gateway/auth.rs)
verify_token(provided, expected) ==
  safe_equal_secret(Some(provided), Some(expected))

\* a loop that stops at the first mismatch
CtContinue_EarlyExit(i, x, len) == i <= len /\ x = 1

\* the loop of <[u8]>::ct_eq runs while a pair is left, whatever x holds
CtContinue(i, x, len) == i <= len

SecInit ==
  sec = [pc |-> "idle", provided |-> None, expected |-> None, i |-> 0,
         x |-> 0, work |-> 0, result |-> FALSE]

\* safe_equal_secret, lines 4-11: the None and the length checks
SecretCall(p, e) ==
  /\ sec.pc = "idle"
  /\ sec' =
       IF ~IsSome(p) \/ ~IsSome(e) \/ Len(Unwrap(p)) # Len(Unwrap(e))
         THEN [pc |-> "done", provided |-> p, expected |-> e, i |-> 0,
               x |-> 0, work |-> 0, result |-> FALSE]
         ELSE [pc |-> "loop", provided |-> p, expected |-> e, i |-> 1,
               x |-> 1, work |-> 0, result |-> FALSE]
  /\ UNCHANGED <<storeVars, now, objVars, gwVars, strVars, extVars>>

\* one iteration of the loop of ct_eq: one byte comparison
CtEqStep ==
  /\ sec.pc = "loop"
  /\ CtContinue(sec.i, sec.x, Len(Unwrap(sec.provided)))
  /\ sec' = [sec EXCEPT
               !.x = BitAnd1(@, ByteCtEq(Unwrap(sec.provided)[sec.i],
                                         Unwrap(sec.expected)[sec.i])),
               !.i = @ + 1,
               !.work = @ + 1]
  /\ UNCHANGED <<storeVars, now, objVars, gwVars, strVars, extVars>>

\* the loop is over: Choice -> bool
CtEqReturn ==
  /\ sec.pc = "loop"
  /\ ~CtContinue(sec.i, sec.x, Len(Unwrap(sec.provided)))
  /\ sec' = [sec EXCEPT !.pc = "done", !.result = (sec.x = 1)]
  /\ UNCHANGED <<storeVars, now, objVars, gwVars, strVars, extVars>>

\* the caller has the result; the next comparison can start
SecretDone ==
  /\ sec.pc = "done"
  /\ sec' = [pc |-> "idle", provided |-> None, expected |-> None, i |-> 0,
             x |-> 0, work |-> 0, result |-> FALSE]
  /\ UNCHANGED <<storeVars, now, objVars, gwVars, strVars, extVars>>

\* ------------------------------------------------------------------------
\* auth_middleware (gateway/auth.rs) and build_app (gateway/server.rs)
\* ------------------------------------------------------------------------
\* str::strip_prefix
strip_prefix(s, p) ==
  IF Len(s) >= Len(p) /\ SubSeq(s, 1, Len(p)) = p
    THEN Some(SubSeq(s, Len(p) + 1, Len(s)))
    ELSE None

extract_bearer_token(auth_header) ==
  LET a == strip_prefix(auth_header, StrBearer)
  IN IF IsSome(a) THEN a ELSE strip_prefix(auth_header, StrBearerLower)

\* str::split(sep): the pieces between the separators, at least one
RECURSIVE SplitFrom(_, _, _, _)
SplitFrom(s, sep, i, cur) ==
  IF i > Len(s) THEN <<cur>>
  ELSE IF s[i] = sep THEN <<cur>> \o SplitFrom(s, sep, i + 1, <<>>)
  ELSE SplitFrom(s, sep, i + 1, Append(cur, s[i]))

Split(s, sep) == SplitFrom(s, sep, 1, <<>>)

\* HeaderValue::to_str: only visible ASCII (and tab) is a str
to_str(v) ==
  IF \A i \in 1..Len(v) : (v[i] >= 32 /\ v[i] < 127) \/ v[i] = 9
    THEN Some(v) ELSE None

HealthPaths == {"/health", "/v1/health"}
\* the GET routes of build_router, all behind the auth layer
ProtectedPaths ==
  {"/health", "/v1/health", "/v1/status", "/v1/config", "/v1/sessions",
   "/v1/tools"}

\* some parameter of the query is token=<expected>
QueryTokenOk(query, expected) ==
  LET params == Split(query, 38)
  IN \E i \in 1..Len(params) :
        LET t == strip_prefix(params[i], StrTokenEq)
        IN IsSome(t) /\ verify_token(Unwrap(t), expected)

\* auth_middleware: TRUE when next.run(request) is reached, FALSE for 401
auth_middleware(token, request) ==
  IF ~IsSome(token) THEN TRUE
  ELSE IF request.path \in HealthPaths THEN TRUE
  ELSE
    LET expected_token == Unwrap(token)
        auth_header ==
          IF IsSome(request.authorization)
            THEN to_str(Unwrap(request.authorization)) ELSE None
    IN IF IsSome(auth_header)
         THEN LET t == extract_bearer_token(Unwrap(auth_header))
              IN IsSome(t) /\ verify_token(Unwrap(t), expected_token)
         ELSE IsSome(request.query)
                /\ QueryTokenOk(Unwrap(request.query), expected_token)

\* the Authorization header values and the query strings of the requests
HeaderValues ==
  {p \o t : p \in {StrBearer, StrBearerLower, StrBasic}, t \in Presented}
    \cup Tokens \cup {<<200>>}
QueryValues ==
  {StrTokenEq \o t : t \in Presented}
    \cup {StrXEq \o <<97>> \o Amp \o StrTokenEq \o u : u \in Tokens}
    \cup {StrTokenEq \o t \o Amp \o StrTokenEq \o u : t \in Tokens, u \in Tokens}
    \cup {<<>>}

Requests(paths) ==
  [path : paths,
   authorization : {None} \cup {Some(h) : h \in HeaderValues},
   query : {None} \cup {Some(q) : q \in QueryValues}]

NoRequest == [path |-> "", authorization |-> None, query |-> None]

\* GatewayState::new: the token of the configuration, if any
GwInit ==
  /\ auth_token \in {None} \cup {Some(t) : t \in Tokens}
  /\ http = [state |-> "none", request |-> NoRequest, status |-> 0,
             body |-> "", handled |-> FALSE]
  /\ ws = [state |-> "none", request |-> NoRequest, out |-> <<>>,
           dispatched |-> <<>>, recv |-> 0, seen |-> <<>>]

\* Err(StatusCode::UNAUTHORIZED) as a response: the status line and no body
Unauthorized == [status |-> 401, body |-> ""]

\* the answer of auth_middleware to a request it refuses: line 48 when an
\* Authorization header was read, line 62 otherwise
DeniedResponse_ByArm(request) ==
  IF IsSome(request.authorization)
       /\ IsSome(to_str(Unwrap(request.authorization)))
    THEN [status |-> 401, body |-> "invalid token"]
    ELSE Unauthorized
DeniedResponse(request) ==
  IF IsSome(request.authorization)
       /\ IsSome(to_str(Unwrap(request.authorization)))
    THEN Unauthorized
    ELSE Unauthorized

\* one request to a route of the protected router: the middleware, then the
\* handler (every handler of these routes answers 200)
HttpRequest(request) ==
  /\ http.state = "none"
  /\ request.path \in ProtectedPaths
  /\ http' = IF auth_middleware(auth_token, request)
               THEN [state |-> "done", request |-> request, status |-> 200,
                     body |-> request.path, handled |-> TRUE]
               ELSE [state |-> "done", request |-> request,
                     status |-> DeniedResponse(request).status,
                     body |-> DeniedResponse(request).body,
                     handled |-> FALSE]
  /\ UNCHANGED <<storeVars, now, objVars, auth_token, ws, secVars, strVars, extVars>>

\* the response is written; the router takes the next request
HttpDone ==
  /\ http.state = "done"
  /\ http' = [state |-> "none", request |-> NoRequest, status |-> 0,
              body |-> "", handled |-> FALSE]
  /\ UNCHANGED <<storeVars, now, objVars, auth_token, ws, secVars, strVars, extVars>>

\* ------------------------------------------------------------------------
\* ws_handler and handle_ws_connection (gateway/ws.rs)
\* ------------------------------------------------------------------------
\* a connection handles at most MaxFrames client frames
MaxFrames == 2

KnownMethods ==
  {"gateway.status", "gateway.health", "sessions.list", "config.get",
   "tools.list"}
WsMethods == KnownMethods \cup {"chat.send"}
\* the client frames that parse: {id?, method?}
WsMessages ==
  [id : {None, Some("1")}, method : {None} \cup {Some(m) : m \in WsMethods}]

Frame(kind, id, result, error, payload) ==
  [kind |-> kind, id |-> id, result |-> result, error |-> error,
   payload |-> payload]

HelloFrame == Frame("gateway.hello", None, None, None, "")

\* a dispatch whose "method not found" answer drops the id
handle_ws_method_NoId(msg) ==
  LET method == IF IsSome(msg.method) THEN Unwrap(msg.method) ELSE ""
  IN IF method \in KnownMethods
       THEN Frame("response", msg.id, Some(method), None, "")
       ELSE Frame("response", None, None,
                  Some([code |-> -32601, method |-> method]), "")

\* handle_ws_method: the response to a frame that parsed
handle_ws_method(msg) ==
  LET method == IF IsSome(msg.method) THEN Unwrap(msg.method) ELSE ""
  IN IF method \in KnownMethods
       THEN Frame("response", msg.id, Some(method), None, "")
       ELSE Frame("response", msg.id, None,
                  Some([code |-> -32601, method |-> method]), "")

\* a parse error answered as a method that was not found
ParseErrorFrame_NotFound ==
  Frame("response", None, None, Some([code |-> -32601, method |-> ""]), "")
ParseErrorFrame ==
  Frame("response", None, None, Some([code |-> -32700, method |-> ""]), "")

\* sender.send(frame): the frame is written, or the send fails
Sent(ok, frame) == IF ok THEN Append(ws.out, frame) ELSE ws.out

\* the connection after the send of the welcome: the receive loop, or
\* `return` when the send failed
AfterHello_Ignore(ok) == "open"
AfterHello(ok) == IF ok THEN "open" ELSE "closed"

\* GET /ws: the route carries no auth layer and ws_handler checks nothing;
\* on upgrade handle_ws_connection sends the welcome, and returns if that fails
WsUpgrade(request, ok) ==
  /\ ws.state = "none"
  /\ request.path = "/ws"
  /\ ws' = [state |-> AfterHello(ok), request |-> request,
            out |-> Sent(ok, HelloFrame), dispatched |-> <<>>, recv |-> 0,
            seen |-> <<>>]
  /\ UNCHANGED <<storeVars, now, objVars, auth_token, http, secVars, strVars, extVars>>

\* a client frame as receiver.next() yields it: the variant of Message, the
\* text or payload it carries, and whether the send of its answer succeeds
Seen(kind, data, ok) == [kind |-> kind, data |-> data, ok |-> ok]

\* the loop after Message::Close: break
AfterClose_Continue == "open"
AfterClose == "closed"

\* receiver.next() yields a frame
WsCanRecv ==
  /\ ws.state = "open"
  /\ ws.recv < MaxFrames

\* Message::Text that parses: dispatch, answer, leave the loop if the send fails
WsText(msg, ok) ==
  /\ WsCanRecv
  /\ ws' = [ws EXCEPT !.recv = @ + 1,
                      !.seen = Append(@, Seen("text", msg, ok)),
                      !.dispatched = Append(@, msg),
                      !.out = Sent(ok, handle_ws_method(msg)),
                      !.state = IF ok THEN "open" ELSE "closed"]
  /\ UNCHANGED <<storeVars, now, objVars, auth_token, http, secVars, strVars, extVars>>

\* Message::Text that does not parse: the error is sent, a failed send ignored
WsBadText(ok) ==
  /\ WsCanRecv
  /\ ws' = [ws EXCEPT !.recv = @ + 1,
                      !.seen = Append(@, Seen("badtext", "", ok)),
                      !.out = Sent(ok, ParseErrorFrame)]
  /\ UNCHANGED <<storeVars, now, objVars, auth_token, http, secVars, strVars, extVars>>

\* Message::Ping(data): Pong(data), a failed send ignored
WsPing(data, ok) ==
  /\ WsCanRecv
  /\ ws' = [ws EXCEPT !.recv = @ + 1,
                      !.seen = Append(@, Seen("ping", data, ok)),
                      !.out = Sent(ok, Frame("pong", None, None, None, data))]
  /\ UNCHANGED <<storeVars, now, objVars, auth_token, http, secVars, strVars, extVars>>

\* Message::Binary or Message::Pong: the arm `_ => {}`
WsOther(kind) ==
  /\ WsCanRecv
  /\ ws' = [ws EXCEPT !.recv = @ + 1,
                      !.seen = Append(@, Seen(kind, "", TRUE))]
  /\ UNCHANGED <<storeVars, now, objVars, auth_token, http, secVars, strVars, extVars>>

\* Message::Close: the loop ends
WsClose ==
  /\ ws.state = "open"
  /\ ws' = [ws EXCEPT !.state = AfterClose,
                      !.seen = Append(@, Seen("close", "", TRUE))]
  /\ UNCHANGED <<storeVars, now, objVars, auth_token, http, secVars, strVars, extVars>>

\* a receive error or the end of the client's stream: the loop ends
WsRecvEnd ==
  /\ ws.state = "open"
  /\ ws' = [ws EXCEPT !.state = "closed"]
  /\ UNCHANGED <<storeVars, now, objVars, auth_token, http, secVars, strVars, extVars>>

\* the upgrade requests of the model
WsRequests ==
  [path : {"/ws"},
   authorization : {None, Some(StrBearer \o <<97>>)},
   query : {None, Some(StrTokenEq \o <<97>>)}]

\* ------------------------------------------------------------------------
\* AnthropicProvider::stream: the producer task (provider/anthropic.rs)
\* ------------------------------------------------------------------------
\* Text is a sequence of one-character strings; every byte of the model's
\* response bodies is ASCII.
\* the longest upstream, in records
MaxRecords == 3
\* the longest chunk that is not the whole rest of the body
MaxChunk == 2
\* the largest channel capacity of the backpressure specification
MaxChan == 2
\* tokio::sync::mpsc::channel(100)
ChannelCapacity == 100

NL == "\n"

StrEventPrefix ==
  <<"e", "v", "e", "n", "t", ":", " ">>

StrDataPrefix ==
  <<"d", "a", "t", "a", ":", " ">>

StrDone ==
  <<"[", "D", "O", "N", "E", "]">>

Str_message_start ==
  <<"m", "e", "s", "s", "a", "g", "e", "_", "s", "t", "a", "r", "t">>

Str_content_block_start ==
  <<"c", "o", "n", "t", "e", "n", "t", "_", "b", "l", "o", "c", "k", "_",
    "s", "t", "a", "r", "t">>

Str_content_block_delta ==
  <<"c", "o", "n", "t", "e", "n", "t", "_", "b", "l", "o", "c", "k", "_",
    "d", "e", "l", "t", "a">>

Str_content_block_stop ==
  <<"c", "o", "n", "t", "e", "n", "t", "_", "b", "l", "o", "c", "k", "_",
    "s", "t", "o", "p">>

Str_message_delta ==
  <<"m", "e", "s", "s", "a", "g", "e", "_", "d", "e", "l", "t", "a">>

Str_message_stop ==
  <<"m", "e", "s", "s", "a", "g", "e", "_", "s", "t", "o", "p">>

Str_ping ==
  <<"p", "i", "n", "g">>

Str_error ==
  <<"e", "r", "r", "o", "r">>

Str_unknown ==
  <<"f", "u", "t", "u", "r", "e", "_", "e", "v", "e", "n", "t">>

StrEmptyObject ==
  <<"{", "}">>

StrIndexKey ==
  <<"{", "\"", "i", "n", "d", "e", "x", "\"", ":">>

\* str::trim on the characters of the model: blanks, tabs, CR and LF
IsSpace(c) == c \in {" ", "\t", "\r", "\n"}
RECURSIVE trim_start(_)
trim_start(s) ==
  IF s # <<>> /\ IsSpace(Head(s)) THEN trim_start(Tail(s)) ELSE s
RECURSIVE trim_end(_)
trim_end(s) ==
  IF s # <<>> /\ IsSpace(s[Len(s)])
    THEN trim_end(SubSeq(s, 1, Len(s) - 1)) ELSE s
trim(s) == trim_end(trim_start(s))

\* buffer.find('\n'): the position of the first newline, 0 for None
RECURSIVE FindFrom(_, _, _)
FindFrom(s, c, i) ==
  IF i > Len(s) THEN 0 ELSE IF s[i] = c THEN i ELSE FindFrom(s, c, i + 1)
find(s, c) == FindFrom(s, c, 1)

\* serde_json::from_str::<Value> on the payloads of the model: {} and
\* {"index":d} are JSON objects, every other payload of the model is not JSON.
\* The Value is kept as its "index" member.
Digits == {"0", "1", "2"}
DigitValue(c) == IF c = "0" THEN 0 ELSE IF c = "1" THEN 1 ELSE 2
from_str(data) ==
  IF data = StrEmptyObject THEN Some([index |-> None])
  ELSE IF /\ Len(data) = Len(StrIndexKey) + 2
          /\ SubSeq(data, 1, Len(StrIndexKey)) = StrIndexKey
          /\ data[Len(data) - 1] \in Digits
          /\ data[Len(data)] = "}"
         THEN Some([index |-> Some(DigitValue(data[Len(data) - 1]))])
  ELSE None

\* json["index"].as_u64().unwrap_or(0)
IndexOf(json) == IF IsSome(json.index) THEN Unwrap(json.index) ELSE 0

\* StreamEvent (provider/types.rs)
Event(type, index) == [type |-> type, index |-> index]
MessageStop == Event("MessageStop", None)
NetworkError == Event("Error", None)

\* the match on current_event_type: the event of a data payload that parsed
\* the arm `_ => None`
UnknownEvent_Ping == Some(Event("Ping", None))
UnknownEvent == None
EventFor(type, json) ==
  IF type = Str_message_start THEN Some(Event("MessageStart", None))
  ELSE IF type = Str_content_block_start
    THEN Some(Event("ContentBlockStart", Some(IndexOf(json))))
  ELSE IF type = Str_content_block_delta
    THEN Some(Event("ContentBlockDelta", Some(IndexOf(json))))
  ELSE IF type = Str_content_block_stop
    THEN Some(Event("ContentBlockStop", Some(IndexOf(json))))
  ELSE IF type = Str_message_delta THEN Some(Event("MessageDelta", None))
  ELSE IF type = Str_message_stop THEN Some(MessageStop)
  ELSE IF type = Str_ping THEN Some(Event("Ping", None))
  ELSE IF type = Str_error THEN Some(Event("Error", None))
  ELSE UnknownEvent

\* what follows the send of the MessageStop of a [DONE] payload: return
DoneAfter_Continue == "continue"
DoneAfter == "return"

\* the inner loop, from a buffer and an event type up to the next send or the
\* next read: the buffer and the event type then, the event to send if any,
\* and what follows the send ("continue", or "return" for [DONE])
Scanned(buf, type, ev, after) ==
  [buffer |-> buf, current_event_type |-> type, ev |-> ev, after |-> after]
RECURSIVE Scan(_, _)
Scan(buf, type) ==
  LET newline_pos == find(buf, NL)
  IN IF newline_pos = 0 THEN Scanned(buf, type, None, "read")
     ELSE
       LET line == trim(SubSeq(buf, 1, newline_pos - 1))
           rest == SubSeq(buf, newline_pos + 1, Len(buf))
           event_type == strip_prefix(line, StrEventPrefix)
           data_line == strip_prefix(line, StrDataPrefix)
       IN IF line = <<>> THEN Scan(rest, type)
          ELSE IF IsSome(event_type)
            THEN Scan(rest, trim(Unwrap(event_type)))
          ELSE IF IsSome(data_line)
            THEN LET data == trim(Unwrap(data_line))
                     json == from_str(data)
                     event == IF IsSome(json)
                                THEN EventFor(type, Unwrap(json)) ELSE None
                 IN IF data = StrDone
                      THEN Scanned(rest, type, Some(MessageStop), DoneAfter)
                    ELSE IF IsSome(event)
                      THEN Scanned(rest, type, event, "continue")
                    ELSE Scan(rest, type)
          ELSE Scan(rest, type)

\* the events of a whole body: the sends of the task, one scan after the other
RECURSIVE Translate(_, _)
Translate(buf, type) ==
  LET r == Scan(buf, type)
  IN IF ~IsSome(r.ev) THEN <<>>
     ELSE IF r.after = "return" THEN <<Unwrap(r.ev)>>
     ELSE <<Unwrap(r.ev)>> \o Translate(r.buffer, r.current_event_type)

\* the producer goes on from the result of a scan
Resume(r) ==
  /\ buffer' = r.buffer
  /\ current_event_type' = r.current_event_type
  /\ IF IsSome(r.ev)
       THEN /\ ppc' = "send"
            /\ tosend' = Some([ev |-> Unwrap(r.ev), after |-> r.after])
       ELSE /\ ppc' = "read"
            /\ tosend' = None

\* buffer.push_str(&String::from_utf8_lossy(&chunk)), on ASCII bytes
push_str_Replace(buf, chunk) == chunk
push_str(buf, chunk) == buf \o chunk

otherVars == <<storeVars, now, objVars, gwVars, secVars, extVars>>

\* stream.next() yields Some(Ok(chunk)): the next k bytes of the body
StreamNext(k) ==
  /\ ppc = "read"
  /\ k >= 1
  /\ upos + k <= Len(upstream)
  /\ upos' = upos + k
  /\ Resume(Scan(push_str(buffer, SubSeq(upstream, upos + 1, upos + k)),
                 current_event_type))
  /\ UNCHANGED <<records, upstream, uend, capacity, chan, rx, received>>
  /\ UNCHANGED otherVars

\* stream.next() yields None at the end of the body: the task ends
StreamEof ==
  /\ ppc = "read"
  /\ upos = Len(upstream)
  /\ uend = "eof"
  /\ ppc' = "done"
  /\ UNCHANGED <<records, upstream, uend, upos, buffer, current_event_type,
                 tosend, capacity, chan, rx, received>>
  /\ UNCHANGED otherVars

\* stream.next() yields Some(Err(e)): the Error event is sent, then break
StreamErr ==
  /\ ppc = "read"
  /\ upos = Len(upstream)
  /\ uend = "error"
  /\ ppc' = "send"
  /\ tosend' = Some([ev |-> NetworkError, after |-> "return"])
  /\ UNCHANGED <<records, upstream, uend, upos, buffer, current_event_type,
                 capacity, chan, rx, received>>
  /\ UNCHANGED otherVars

\* the bounded channel has a free slot
HasRoom_Unbounded == TRUE
HasRoom == Len(chan) < capacity

\* tx.send(event).await completes with Ok: the channel had room
TxSendOk ==
  /\ ppc = "send"
  /\ rx # "dropped"
  /\ HasRoom
  /\ chan' = Append(chan, Unwrap(tosend).ev)
  /\ IF Unwrap(tosend).after = "return"
       THEN /\ ppc' = "done"
            /\ tosend' = None
            /\ UNCHANGED <<buffer, current_event_type>>
       ELSE Resume(Scan(buffer, current_event_type))
  /\ UNCHANGED <<records, upstream, uend, upos, capacity, rx, received>>
  /\ UNCHANGED otherVars

\* tx.send(event).await completes with Err: the receiver is gone; the task
\* returns, whichever send it was
TxSendErr ==
  /\ ppc = "send"
  /\ rx = "dropped"
  /\ ppc' = "done"
  /\ tosend' = None
  /\ UNCHANGED <<records, upstream, uend, upos, buffer, current_event_type,
                 capacity, chan, rx, received>>
  /\ UNCHANGED otherVars

\* rx.recv() yields Some(event)
Recv ==
  /\ rx = "open"
  /\ chan # <<>>
  /\ received' = Append(received, Head(chan))
  /\ chan' = Tail(chan)
  /\ UNCHANGED <<records, upstream, uend, upos, ppc, buffer,
                 current_event_type, tosend, capacity, rx>>
  /\ UNCHANGED otherVars

\* rx.recv() yields None: the channel is empty and the sender is dropped
RecvNone ==
  /\ rx = "open"
  /\ chan = <<>>
  /\ ppc = "done"
  /\ rx' = "ended"
  /\ UNCHANGED <<records, upstream, uend, upos, ppc, buffer,
                 current_event_type, tosend, capacity, chan, received>>
  /\ UNCHANGED otherVars

\* the consumer drops the receiver: the events still in the channel are gone
DropRx ==
  /\ rx = "open"
  /\ rx' = "dropped"
  /\ chan' = <<>>
  /\ UNCHANGED <<records, upstream, uend, upos, ppc, buffer,
                 current_event_type, tosend, capacity, received>>
  /\ UNCHANGED otherVars

\* the records of the upstream: an optional event: line, a data: line and the
\* empty line that ends the record
Record(event, data) == [event |-> event, data |-> data]
RecordText(rec) ==
  (IF IsSome(rec.event)
     THEN StrEventPrefix \o Unwrap(rec.event) \o <<NL>> ELSE <<>>)
    \o StrDataPrefix \o rec.data \o <<NL, NL>>
RECURSIVE BodyText(_)
BodyText(recs) ==
  IF recs = <<>> THEN <<>> ELSE RecordText(Head(recs)) \o BodyText(Tail(recs))

\* the upstream keeps the connection open and, once the receiver is dropped,
\* sends its last record again and again
StreamRepeat ==
  /\ uend = "repeat"
  /\ rx = "dropped"
  /\ records # <<>>
  /\ upos = Len(upstream)
  /\ upos' = upos - Len(RecordText(records[Len(records)]))
  /\ UNCHANGED <<records, upstream, uend, ppc, buffer, current_event_type,
                 tosend, capacity, chan, rx, received>>
  /\ UNCHANGED otherVars

IndexPayload(i) ==
  StrIndexKey \o <<IF i = 0 THEN "0" ELSE IF i = 1 THEN "1" ELSE "2", "}">>
\* a payload cut off in the middle: not JSON
StrTruncated == StrIndexKey
DoneRecord == Record(None, StrDone)

\* the call starts: the response is there, the channel is empty, the task is
\* about to read
StreamInit(bodies, caps, ends) ==
  /\ records \in bodies
  /\ upstream = BodyText(records)
  /\ uend \in ends
  /\ upos = 0
  /\ ppc = "read"
  /\ buffer = <<>>
  /\ current_event_type = <<>>
  /\ tosend = None
  /\ capacity \in caps
  /\ chan = <<>>
  /\ rx = "open"
  /\ received = <<>>

\* the chunks the network may deliver next
ChunkLens == (1..MaxChunk) \cup {Len(upstream) - upos}

StreamSteps(lens) ==
  \/ \E k \in lens : StreamNext(k)
  \/ StreamEof
  \/ StreamErr
  \/ TxSendOk
  \/ TxSendErr
  \/ Recv
  \/ RecvNone
  \/ DropRx

\* ------------------------------------------------------------------------
\* The locks of GatewayState in the handlers (gateway/routes.rs, gateway/ws.rs)
\* ------------------------------------------------------------------------
\* config and channel_manager are Arc<RwLock<..>> of GatewayState; the session
\* map and the tool map are the RwLocks inside SessionManager and ToolRegistry
Resources == {"config", "sessions", "tools", "channels"}
\* the tasks that run a handler at the same time
GwTasks == {"g1", "g2"}

\* x.read().await, and the drop of the guard it returned
Read(r) == <<"read", r>>
Drop(r) == <<"drop", r>>

\* SessionManager::count, list_keys and ToolRegistry::list_definitions take
\* their read lock and drop it on return; a guard that is a temporary is
\* dropped at the end of its statement; a guard bound by `let` lives to the
\* end of the function
Handlers ==
  [health |-> <<>>,
   status |-> <<Read("config"),
                Read("sessions"), Drop("sessions"),
                Read("tools"), Drop("tools"),
                Read("channels"), Drop("channels"),
                Drop("config")>>,
   get_config |-> <<Read("config"), Drop("config")>>,
   list_sessions |-> <<Read("sessions"), Drop("sessions")>>,
   list_tools |-> <<Read("tools"), Drop("tools")>>,
   chat_completions |-> <<>>,
   ws_gateway_status |-> <<Read("sessions"), Drop("sessions")>>,
   ws_gateway_health |-> <<>>,
   ws_sessions_list |-> <<Read("sessions"), Drop("sessions")>>,
   ws_config_get |-> <<Read("config"), Drop("config")>>,
   ws_tools_list |-> <<Read("tools"), Drop("tools")>>]
HandlerNames == DOMAIN Handlers

LockInit ==
  /\ handlers = [t \in GwTasks |-> [handler |-> "", pc |-> 0]]
  /\ rwlocks = [r \in Resources |-> [readers |-> {}, writer |-> FALSE]]
LockIdle == LockInit

\* the lock operation a task is about to perform, if any
NextOp(t) ==
  LET h == handlers[t]
  IN IF h.handler # "" /\ h.pc <= Len(Handlers[h.handler])
       THEN Some(Handlers[h.handler][h.pc]) ELSE None
\* the locks a task holds
Holds(t) == {r \in Resources : t \in rwlocks[r].readers}

lockOther ==
  <<storeVars, now, objVars, gwVars, secVars, strVars, toolVars, execVars,
    provVars, moreVars>>

\* a request or a frame reaches its handler
HandlerStart(t, name) ==
  /\ handlers[t].handler = ""
  /\ handlers' = [handlers EXCEPT ![t] = [handler |-> name, pc |-> 1]]
  /\ UNCHANGED <<rwlocks, lockOther>>

\* RwLock::read().await returns once no writer holds the lock
HandlerRead(t) ==
  /\ IsSome(NextOp(t))
  /\ LET op == Unwrap(NextOp(t))
     IN /\ op[1] = "read"
        /\ ~rwlocks[op[2]].writer
        /\ rwlocks' = [rwlocks EXCEPT ![op[2]].readers = @ \cup {t}]
  /\ handlers' = [handlers EXCEPT ![t].pc = @ + 1]
  /\ UNCHANGED lockOther

\* the guard goes out of scope
HandlerDrop(t) ==
  /\ IsSome(NextOp(t))
  /\ LET op == Unwrap(NextOp(t))
     IN /\ op[1] = "drop"
        /\ rwlocks' = [rwlocks EXCEPT ![op[2]].readers = @ \ {t}]
  /\ handlers' = [handlers EXCEPT ![t].pc = @ + 1]
  /\ UNCHANGED lockOther

\* the handler returns its response
HandlerReturn(t) ==
  /\ handlers[t].handler # ""
  /\ ~IsSome(NextOp(t))
  /\ handlers' = [handlers EXCEPT ![t] = [handler |-> "", pc |-> 0]]
  /\ UNCHANGED <<rwlocks, lockOther>>

\* another task takes a write lock: SessionManager::update, get_or_create or
\* remove on the session map, ToolRegistry::register on the tool map
WriteLock(r) ==
  /\ r \in {"sessions", "tools"}
  /\ ~rwlocks[r].writer
  /\ rwlocks[r].readers = {}
  /\ rwlocks' = [rwlocks EXCEPT ![r].writer = TRUE]
  /\ UNCHANGED <<handlers, lockOther>>
WriteUnlock(r) ==
  /\ rwlocks[r].writer
  /\ rwlocks' = [rwlocks EXCEPT ![r].writer = FALSE]
  /\ UNCHANGED <<handlers, lockOther>>

\* ------------------------------------------------------------------------
\* ToolRegistry (tools/mod.rs)
\* ------------------------------------------------------------------------
\* a registry receives at most MaxRegs register calls
MaxRegs == 3
ToolNames == {"Read", "exec", "web"}
Descriptions == {"d1", "d2"}
\* RegisteredTool: its definition's name and description
RegisteredTools == [name : ToolNames, description : Descriptions]

\* ToolRegistry::with_policy(deny, allow); the lists are searched with
\* Vec::contains, so each is given by the names it contains
ToolInit(denies, allows) ==
  /\ deny_list \in denies
  /\ allow_list \in allows
  /\ tools = <<>>
  /\ registered = <<>>
  /\ listed = None
ToolIdle == ToolInit({{}}, {{}})

\* a policy under which the deny list alone decides
is_allowed_DenyWins(name) == name \notin deny_list
\* ToolRegistry::is_allowed
is_allowed(name) ==
  IF name \in deny_list THEN name \in allow_list ELSE TRUE

toolOther ==
  <<storeVars, now, objVars, gwVars, secVars, strVars, lockVars, execVars,
    provVars, moreVars>>

\* ToolRegistry::register: HashMap::insert under the definition's name
register(tool) ==
  /\ Len(registered) < MaxRegs
  /\ tools' = [n \in DOMAIN tools \cup {tool.name} |->
                 IF n = tool.name THEN tool ELSE tools[n]]
  /\ registered' = Append(registered, tool)
  /\ listed' = None
  /\ UNCHANGED <<deny_list, allow_list, toolOther>>

\* the orders in which HashMap::values may yield the entries of a set of keys
Orders(keys) ==
  {o \in [1..Cardinality(keys) -> keys] :
     \A i, j \in 1..Cardinality(keys) : i # j => o[i] # o[j]}
\* filter(..).map(..).collect() over the entries in the order o
RECURSIVE Collect(_, _)
Collect(o, i) ==
  IF i > Len(o) THEN <<>>
  ELSE (IF is_allowed(tools[o[i]].name) THEN <<tools[o[i]]>> ELSE <<>>)
         \o Collect(o, i + 1)

\* ToolRegistry::list_definitions
list_definitions ==
  /\ \E o \in Orders(DOMAIN tools) : listed' = Some(Collect(o, 1))
  /\ UNCHANGED <<deny_list, allow_list, tools, registered, toolOther>>

\* builtin::all_builtin_tools: the names of the definitions, in order
all_builtin_tools ==
  <<"Read", "Write", "Edit", "exec", "web_search", "web_fetch",
    "memory_search", "message">>
\* the names of the definitions a sequence of registrations holds
Names(regs) == {regs[i].name : i \in 1..Len(regs)}
\* ToolRegistry::register_builtins: register() for each built-in definition
register_builtins ==
  /\ registered = <<>>
  /\ registered' = [i \in 1..Len(all_builtin_tools) |->
                      [name |-> all_builtin_tools[i], description |-> "d1"]]
  /\ tools' = [n \in DOMAIN tools \cup Names(registered') |->
                 IF n \in Names(registered')
                   THEN [name |-> n, description |-> "d1"] ELSE tools[n]]
  /\ listed' = None
  /\ UNCHANGED <<deny_list, allow_list, toolOther>>
\* the names list_definitions advertises: the registered tools the policy
\* allows
Advertised == {n \in DOMAIN tools : is_allowed(tools[n].name)}

\* ------------------------------------------------------------------------
\* The built-in tools (tools/executor.rs)
\* ------------------------------------------------------------------------
\* usize and u64 are words of UsizeBits bits (64 in the build)
UsizeBits == 20
UsizeMax == 2^UsizeBits - 1
\* unwrap_or(1), unwrap_or(2000)
DefaultOffset == 1
DefaultLimit == 2000

\* serde_json::Value of an argument: absent from the object, a string, a
\* number that as_u64 accepts, or any other value (null, a bool, an array, a
\* negative or fractional number)
JAbsent == <<"absent">>
JOther == <<"other">>
JStr(s) == <<"str", s>>
JU64(n) == <<"u64", n>>
as_str(v) == IF v[1] = "str" THEN Some(v[2]) ELSE None
as_u64(v) == IF v[1] = "u64" THEN Some(v[2]) ELSE None
unwrap_or(o, d) == IF IsSome(o) THEN Unwrap(o) ELSE d

\* ToolResult; the metadata is the set of its entries, a message is one item
ToolResult(content, is_error, metadata) ==
  [content |-> content, is_error |-> is_error, metadata |-> metadata]
Msg(text) == <<text>>
\* the outcome of a call: the ToolResult returned, or a panic of the task
Return(result) == [kind |-> "return", result |-> result]
Panic == [kind |-> "panic", result |-> ToolResult(<<>>, TRUE, {})]

\* str::lines over text without carriage returns: the text between line
\* feeds, without an empty last line
RECURSIVE lines(_)
lines(s) ==
  IF s = <<>> THEN <<>>
  ELSE LET p == find(s, NL)
       IN IF p = 0 THEN <<s>>
          ELSE <<SubSeq(s, 1, p - 1)>> \o lines(SubSeq(s, p + 1, Len(s)))
\* [&str]::join("\n")
RECURSIVE join(_)
join(ls) ==
  IF ls = <<>> THEN <<>>
  ELSE IF Len(ls) = 1 THEN ls[1]
  ELSE ls[1] \o <<NL>> \o join(Tail(ls))

saturating_sub(a, b) == IF a >= b THEN a - b ELSE 0
min(a, b) == IF a <= b THEN a ELSE b

\* the window of execute_read, lines 48-50: `start + limit` panics on overflow
\* in a build with overflow checks and wraps otherwise; lines[start..end]
\* panics when start > end
ReadWindow(ls, offset, limit, checks) ==
  LET start == min(saturating_sub(offset, 1), Len(ls))
      sum == start + limit
  IN IF sum > UsizeMax /\ checks THEN Panic
     ELSE LET end == min(sum % (UsizeMax + 1), Len(ls))
          IN IF start > end THEN Panic
             ELSE Return(ToolResult(join(SubSeq(ls, start + 1, end)), FALSE,
                                    {<<"total_lines", Len(ls)>>,
                                     <<"returned_lines", end - start>>}))

\* execute_read
execute_read(input, fs, checks) ==
  LET file_path == unwrap_or(as_str(input.file_path), "")
      offset == unwrap_or(as_u64(input.offset), DefaultOffset)
      limit == unwrap_or(as_u64(input.limit), DefaultLimit)
  IN IF file_path = ""
       THEN Return(ToolResult(Msg("file_path is required"), TRUE, {}))
     ELSE IF ~IsSome(fs[file_path])
       THEN Return(ToolResult(Msg("Error reading"), TRUE, {}))
     ELSE ReadWindow(lines(Unwrap(fs[file_path])), offset, limit, checks)

\* str::contains and the place of the first match
Occurs(s, pat, i) == i + Len(pat) - 1 <= Len(s)
                       /\ SubSeq(s, i, i + Len(pat) - 1) = pat
contains(s, pat) == \E i \in 1..(Len(s) + 1) : Occurs(s, pat, i)
FirstMatch(s, pat) ==
  CHOOSE i \in 1..(Len(s) + 1) :
    Occurs(s, pat, i) /\ \A j \in 1..(i - 1) : ~Occurs(s, pat, j)
\* a replacement of the last match instead of the first
replacen_Last(s, pat, to) ==
  LET i == CHOOSE k \in 1..(Len(s) + 1) :
             Occurs(s, pat, k)
               /\ \A j \in (k + 1)..(Len(s) + 1) : ~Occurs(s, pat, j)
  IN SubSeq(s, 1, i - 1) \o to \o SubSeq(s, i + Len(pat), Len(s))
\* str::replacen(pat, to, 1) when pat occurs
replacen(s, pat, to) ==
  LET i == FirstMatch(s, pat)
  IN SubSeq(s, 1, i - 1) \o to \o SubSeq(s, i + Len(pat), Len(s))

\* tokio::fs::write(path, content) on the file system: the file holds the
\* content, or the write failed and the file is as it was, or was created
\* or truncated and not filled
WriteOutcomes == {"ok", "failed", "truncated"}
FsWrite(fs, path, content, io) ==
  IF io = "ok" THEN [fs EXCEPT ![path] = Some(content)]
  ELSE IF io = "truncated" THEN [fs EXCEPT ![path] = Some(<<>>)]
  ELSE fs

\* execute_write: the outcome and the file system after it
execute_write(input, fs, io) ==
  LET file_path == unwrap_or(as_str(input.file_path), "")
      content == unwrap_or(as_str(input.content), <<>>)
  IN IF file_path = ""
       THEN [out |-> Return(ToolResult(Msg("file_path is required"), TRUE, {})),
             fs |-> fs]
     ELSE [out |-> Return(ToolResult(
                     IF io = "ok" THEN Msg("Successfully wrote")
                                  ELSE Msg("Error writing"),
                     io # "ok", {})),
           fs |-> FsWrite(fs, file_path, content, io)]

\* execute_edit: the outcome and the file system after it
execute_edit(input, fs, io) ==
  LET file_path == unwrap_or(as_str(input.file_path), "")
      old_string == unwrap_or(as_str(input.old_string), <<>>)
      new_string == unwrap_or(as_str(input.new_string), <<>>)
  IN IF file_path = "" \/ old_string = <<>>
       THEN [out |-> Return(ToolResult(
                       Msg("file_path and old_string are required"), TRUE, {})),
             fs |-> fs]
     ELSE IF ~IsSome(fs[file_path])
       THEN [out |-> Return(ToolResult(Msg("Error reading"), TRUE, {})),
             fs |-> fs]
     ELSE IF ~contains(Unwrap(fs[file_path]), old_string)
       THEN [out |-> Return(ToolResult(Msg("old_string not found in file"),
                                       TRUE, {})),
             fs |-> fs]
     ELSE [out |-> Return(ToolResult(
                     IF io = "ok" THEN Msg("Successfully edited")
                                  ELSE Msg("Error writing"),
                     io # "ok", {})),
           fs |-> FsWrite(fs, file_path,
                          replacen(Unwrap(fs[file_path]), old_string,
                                   new_string), io)]

\* execute_tool for the tools that work on files, and for an unknown name
\* (the arm of "exec" is the action ExecStart)
execute_tool(name, input, fs, checks, io) ==
  IF name = "Read"
    THEN [out |-> execute_read(input, fs, checks), fs |-> fs]
  ELSE IF name = "Write" THEN execute_write(input, fs, io)
  ELSE IF name = "Edit" THEN execute_edit(input, fs, io)
  ELSE [out |-> Return(ToolResult(Msg("Unknown tool"), TRUE, {})), fs |-> fs]

\* the arguments of the model
Paths == {"f", "g"}
NoInput ==
  [file_path |-> JAbsent, offset |-> JAbsent, limit |-> JAbsent,
   content |-> JAbsent, old_string |-> JAbsent, new_string |-> JAbsent,
   command |-> JAbsent, timeout |-> JAbsent]
PathArgs == {JAbsent, JOther, JStr("")} \cup {JStr(p) : p \in Paths}
NumArgs ==
  {JAbsent, JOther}
    \cup {JU64(n) : n \in {0, 1, 2, 3, 4, UsizeMax - 1, UsizeMax}}
EditTexts == {<<"a">>, <<"b">>, <<"a", "b">>, <<NL>>}
TextArgs == {JAbsent, JOther, JStr(<<>>)} \cup {JStr(t) : t \in EditTexts}
FileTexts ==
  {<<>>, <<"a">>, <<"a", NL>>, <<"a", NL, "b">>, <<"a", "b", "a", "b">>,
   <<"a", NL, NL, "b", NL>>, <<"a", NL, "b", NL, "a", "b">>}
ToolInputs(name) ==
  IF name = "Read"
    THEN {[NoInput EXCEPT !.file_path = p, !.offset = o, !.limit = l] :
            p \in PathArgs, o \in NumArgs, l \in NumArgs}
  ELSE IF name = "Write"
    THEN {[NoInput EXCEPT !.file_path = p, !.content = c] :
            p \in PathArgs, c \in TextArgs}
  ELSE IF name = "Edit"
    THEN {[NoInput EXCEPT !.file_path = p, !.old_string = o,
                          !.new_string = n] :
            p \in PathArgs, o \in TextArgs, n \in TextArgs}
  ELSE {NoInput}

\* no process spawned
NoProc == [state |-> "none", timeout_secs |-> 0, elapsed |-> 0]
NoCall ==
  [n |-> 0, name |-> "", input |-> NoInput, io |-> "ok",
   before |-> [p \in Paths |-> None], out |-> Return(ToolResult(<<>>, FALSE, {}))]
ExecInit(texts, profiles) ==
  /\ \E t \in texts : files = [p \in Paths |-> IF p = "f" THEN Some(t) ELSE None]
  /\ overflow_checks \in profiles
  /\ tcall = NoCall
  /\ proc = NoProc
ExecIdle == ExecInit({<<>>}, {FALSE})

execOther ==
  <<storeVars, now, objVars, gwVars, secVars, strVars, lockVars, toolVars,
    provVars, moreVars>>

\* one call of execute_tool, on the file system as it is
ToolCall(name, input, io) ==
  /\ tcall.n = 0
  /\ LET r == execute_tool(name, input, files, overflow_checks, io)
     IN /\ tcall' = [n |-> tcall.n + 1, name |-> name, input |-> input,
                     io |-> io, before |-> files, out |-> r.out]
        /\ files' = r.fs
  /\ UNCHANGED <<overflow_checks, proc, execOther>>

\* --- execute_exec ---
\* the clock of the model runs MaxSeconds seconds
MaxSeconds == 31
\* unwrap_or(30)
DefaultTimeout == 30
\* output.status.code().unwrap_or(-1)
ExitCodes == {0, 1, -1}
\* the call has not returned yet
Pending == [kind |-> "pending", result |-> ToolResult(<<>>, FALSE, {})]
TimedOut == ToolResult(Msg("Command timed out"), TRUE, {})

\* what dropping the future of Command::output() does to a child that is
\* still running: tokio kills a child on drop only when the Command was
\* built with kill_on_drop(true), and execute_exec does not call it
DroppedChild == "running"

ExecInputs ==
  [command : {JAbsent, JStr(""), JStr("sleep")},
   timeout : {JAbsent, JOther, JU64(0), JU64(1), JU64(UsizeMax)}]

\* execute_exec up to the await: the arguments, then Command::output()
\* spawns bash (spawned), or fails to
ExecStart(input, spawned) ==
  /\ tcall.n = 0
  /\ LET command == unwrap_or(as_str(input.command), "")
         timeout_secs == unwrap_or(as_u64(input.timeout), DefaultTimeout)
         started == [n |-> 1, name |-> "exec",
                     input |-> [NoInput EXCEPT !.command = input.command,
                                               !.timeout = input.timeout],
                     io |-> "ok", before |-> files, out |-> Pending]
     IN IF command = ""
          THEN /\ tcall' = [started EXCEPT !.out = Return(ToolResult(
                                Msg("command is required"), TRUE, {}))]
               /\ UNCHANGED proc
        ELSE IF ~spawned
          THEN /\ tcall' = [started EXCEPT !.out = Return(ToolResult(
                                Msg("Error executing command"), TRUE, {}))]
               /\ UNCHANGED proc
        ELSE /\ tcall' = started
             /\ proc' = [state |-> "running", timeout_secs |-> timeout_secs,
                         elapsed |-> 0]
  /\ UNCHANGED <<files, overflow_checks, execOther>>

\* a second passes
ExecTick ==
  /\ proc.state # "none"
  /\ proc.elapsed < MaxSeconds
  /\ proc' = [proc EXCEPT !.elapsed = @ + 1]
  /\ UNCHANGED <<files, overflow_checks, tcall, execOther>>

\* the process exits; while the call awaits it, the call returns Ok(Ok(output))
ExecExit(code) ==
  /\ proc.state = "running"
  /\ proc' = [proc EXCEPT !.state = "exited"]
  /\ IF tcall.out = Pending
       THEN tcall' = [tcall EXCEPT !.out = Return(ToolResult(
                        Msg("output"), code # 0, {<<"exit_code", code>>}))]
       ELSE UNCHANGED tcall
  /\ UNCHANGED <<files, overflow_checks, execOther>>

\* tokio::time::timeout elapses: Err(_), and the future of output() is dropped
ExecTimeout ==
  /\ tcall.out = Pending
  /\ proc.state = "running"
  /\ proc.elapsed >= proc.timeout_secs
  /\ tcall' = [tcall EXCEPT !.out = Return(TimedOut)]
  /\ proc' = [proc EXCEPT !.state = DroppedChild]
  /\ UNCHANGED <<files, overflow_checks, execOther>>

\* ------------------------------------------------------------------------
\* AnthropicProvider::complete and build_request_body (provider/anthropic.rs)
\* ------------------------------------------------------------------------
\* u64 is the word of the built-in tools
U64Max == UsizeMax
\* unwrap_or(60) * 1000
DefaultRetrySecs == 60
MsPerSec == 1000

\* the retry-after header: absent, a value parse::<u64> rejects (an HTTP
\* date, a number that does not fit), or the seconds it parses to
NoHeader == <<"absent">>
BadHeader == <<"unparsable">>
Secs(n) == <<"secs", n>>
\* .get("retry-after").and_then(to_str).and_then(parse::<u64>)
parse_u64(header) == IF header[1] = "secs" THEN Some(header[2]) ELSE None

\* Result<CompletionResponse, ProviderError>, or a panic of the caller's task
Outcome(kind, status, message, retry_after_ms) ==
  [kind |-> kind, status |-> status, message |-> message,
   retry_after_ms |-> retry_after_ms]
NotCalled == Outcome("none", 0, "", 0)

\* `secs * 1000` in u64: a panic in a build with overflow checks, the product
\* modulo 2^64 otherwise
RetryAfterMs(secs, checks) ==
  IF secs * MsPerSec > U64Max /\ checks THEN None
  ELSE Some((secs * MsPerSec) % (U64Max + 1))

\* response.text().await.unwrap_or_default()
text(resp) == IF resp.readable THEN resp.text ELSE ""

\* complete() from the answer of send() on
complete(resp, checks) ==
  IF ~resp.sent THEN Outcome("NetworkError", 0, "send", 0)
  ELSE IF resp.status = 401 \/ resp.status = 403
    THEN Outcome("AuthError", 0, text(resp), 0)
  ELSE IF resp.status = 429
    THEN LET ms == RetryAfterMs(
                     unwrap_or(parse_u64(resp.retry_after), DefaultRetrySecs),
                     checks)
         IN IF IsSome(ms) THEN Outcome("RateLimited", 0, "", Unwrap(ms))
            ELSE Outcome("panic", 0, "", 0)
  ELSE IF resp.status >= 400
    THEN Outcome("ApiError", resp.status, text(resp), 0)
  ELSE IF resp.readable /\ resp.text = "json"
    THEN Outcome("Ok", 0, resp.text, 0)
  ELSE Outcome("Other", 0, "Failed to parse response", 0)

\* the answers of the model
Statuses == {200, 201, 302, 399, 400, 401, 403, 404, 429, 500, 529}
RetryHeaders ==
  {NoHeader, BadHeader}
    \cup {Secs(n) : n \in {0, 1, 30, U64Max \div MsPerSec,
                            U64Max \div MsPerSec + 1, U64Max}}
Responses ==
  [sent : BOOLEAN, status : Statuses, retry_after : RetryHeaders,
   text : {"json", "overloaded"}, readable : BOOLEAN]

\* --- build_request_body ---
\* a request holds at most MaxHistory messages
MaxHistory == 3
Roles == {"System", "User", "Assistant", "Tool"}
MessageTexts == {"s", "m"}
Messages == [role : Roles, content : MessageTexts]
Requests_(systems) ==
  [system : systems, messages : SeqsUpTo(Messages, MaxHistory)]

\* the role a message is sent under
RoleName(role) ==
  IF role = "Assistant" THEN "assistant" ELSE "user"
\* the loop over request.messages, lines 38-59
RECURSIVE BodyMessages(_)
BodyMessages(msgs) ==
  IF msgs = <<>> THEN <<>>
  ELSE (IF Head(msgs).role = "System" THEN <<>>
        ELSE <<[role |-> RoleName(Head(msgs).role),
                content |-> Head(msgs).content]>>)
         \o BodyMessages(Tail(msgs))
\* build_request_body: the members "messages" and "system" of the body
build_request_body(req) ==
  [messages |-> BodyMessages(req.messages), system |-> req.system]

ProvInit(responses, requests) ==
  /\ up_response \in responses
  /\ completion = NotCalled
  /\ cmpl_request \in requests
  /\ req_body = None
  /\ stream_result = NotCalled
NoResponse ==
  [sent |-> FALSE, status |-> 200, retry_after |-> NoHeader, text |-> "json",
   readable |-> TRUE]
NoRequestBody == [system |-> None, messages |-> <<>>]
ProvIdle == ProvInit({NoResponse}, {NoRequestBody})

provOther ==
  <<storeVars, now, objVars, gwVars, secVars, strVars, lockVars, toolVars,
    execVars, moreVars>>

\* a call of complete() that receives the answer
Complete ==
  /\ completion = NotCalled
  /\ completion' = complete(up_response, overflow_checks)
  /\ UNCHANGED <<up_response, cmpl_request, req_body, stream_result, provOther>>

\* a call of build_request_body
BuildRequestBody ==
  /\ req_body = None
  /\ req_body' = Some(build_request_body(cmpl_request))
  /\ UNCHANGED <<up_response, completion, cmpl_request, stream_result,
                 provOther>>

\* stream() from the answer of send() up to the return of the receiver
stream(resp) ==
  IF ~resp.sent THEN Outcome("NetworkError", 0, "send", 0)
  ELSE IF resp.status >= 400
    THEN Outcome("ApiError", resp.status, text(resp), 0)
  ELSE Outcome("Ok", 0, "rx", 0)

\* a call of stream() that receives the answer
Stream ==
  /\ stream_result = NotCalled
  /\ stream_result' = stream(up_response)
  /\ UNCHANGED <<up_response, completion, cmpl_request, req_body, provOther>>

\* ------------------------------------------------------------------------
\* The configuration as the gateway reflects it (gateway/routes.rs get_config,
\* gateway/ws.rs "config.get", config/types.rs)
\* ------------------------------------------------------------------------
\* the values a configured secret takes
SecretValues == {"k1", "k2"}
OptSecrets == {None} \cup {Some(s) : s \in SecretValues}
\* GatewayAuthConfig: the fields that hold a secret
GatewayAuthConfigs ==
  {None} \cup {Some([token |-> t, password |-> p]) :
                 t \in OptSecrets, p \in {None, Some("k1")}}
\* GatewayConfig: port, mode, bind and auth
GatewayConfigs ==
  {None} \cup
  {Some([port |-> p, mode |-> m, bind |-> b, auth |-> a]) :
     p \in {None, Some(18789)}, m \in {None, Some("local")},
     b \in {None, Some("lan")}, a \in GatewayAuthConfigs}
\* PluginsConfig.entries: the names of the configured plugins
PluginEntries == {None, Some({}), Some({"p"}), Some({"p", "q"})}
\* OpenClawConfig: the sections the handlers read, and the sections that
\* hold a secret (auth.profiles.*.api_key, channels.telegram.bot_token)
OpenClawConfigs ==
  [gateway : GatewayConfigs,
   model : {None, Some("anthropic/m")},
   workspace : {None, Some("/w")},
   plugins : PluginEntries,
   api_key : OptSecrets,
   bot_token : {None, Some("k1")}]

\* OpenClawConfig::primary_model: agents.defaults.model.primary
primary_model(c) == c.model
\* OpenClawConfig::workspace_dir: agents.defaults.workspace
workspace_dir(c) == c.workspace

\* config.gateway.as_ref().and_then(|g| g.<field>)
GatewayField(c, field) ==
  IF IsSome(c.gateway) THEN Unwrap(c.gateway)[field] ELSE None

\* get_config with the whole gateway section serialized
get_config_Serialized(c, order) ==
  [gateway |-> c.gateway,
   model |-> c.model,
   workspace |-> c.workspace,
   plugins |-> IF IsSome(c.plugins) THEN Some(order) ELSE None]
\* the JSON value of get_config, the plugin names in the order e.keys()
\* yields them
get_config(c, order) ==
  [gateway |-> [port |-> GatewayField(c, "port"),
                bind |-> GatewayField(c, "bind"),
                mode |-> GatewayField(c, "mode")],
   model |-> primary_model(c),
   workspace |-> workspace_dir(c),
   plugins |-> IF IsSome(c.plugins) THEN Some(order) ELSE None]
\* the orders in which HashMap::keys may yield the plugin names
KeyOrders(c) ==
  IF IsSome(c.plugins) THEN Orders(Unwrap(c.plugins)) ELSE {<<>>}
\* the result of the WebSocket method config.get
ws_config_get(c) ==
  [model |-> primary_model(c), workspace |-> workspace_dir(c)]

NoReply == [route |-> "none", body |-> None]
CfgInit(configs) ==
  /\ config \in configs
  /\ config_reply = NoReply
DefaultConfig ==
  [gateway |-> None, model |-> None, workspace |-> None, plugins |-> None,
   api_key |-> None, bot_token |-> None]
CfgIdle == CfgInit({DefaultConfig})

cfgOther ==
  <<storeVars, now, objVars, gwVars, secVars, strVars, lockVars, toolVars,
    execVars, provVars, cronVars, keyVars, fairVars>>

\* GET /v1/config
GetConfig ==
  /\ config_reply.route = "none"
  /\ \E order \in KeyOrders(config) :
       config_reply' = [route |-> "http", body |-> get_config(config, order)]
  /\ UNCHANGED <<config, cfgOther>>

\* a frame with the method config.get
WsConfigGet ==
  /\ config_reply.route = "none"
  /\ config_reply' = [route |-> "ws", body |-> ws_config_get(config)]
  /\ UNCHANGED <<config, cfgOther>>

\* ------------------------------------------------------------------------
\* CronService::start and CronService::stop (cron_system/mod.rs)
\* ------------------------------------------------------------------------
\* the number of tick loops the calls of the model may spawn
MaxLoops == 3
Loops == 1..MaxLoops
\* a tick loop: not spawned, at the test of `running` (line 200), in the
\* sleep (line 207), or ended; quiet counts the sleeps it has completed since
\* `running` last became false
NoLoop == [pc |-> "none", quiet |-> 0]
CronInit ==
  /\ cron_running = FALSE
  /\ cron_loops = [l \in Loops |-> NoLoop]
CronIdle == CronInit
Alive(l) == cron_loops[l].pc \in {"check", "sleep"}
\* every loop with its count of quiet sleeps reset
Requiet == [l \in Loops |-> [cron_loops[l] EXCEPT !.quiet = 0]]

cronOther ==
  <<storeVars, now, objVars, gwVars, secVars, strVars, lockVars, toolVars,
    execVars, provVars, cfgVars, keyVars, fairVars>>

\* CronService::start: return if running, else set it and spawn a loop
CronStart ==
  /\ IF cron_running THEN UNCHANGED <<cron_running, cron_loops>>
     ELSE /\ \E l \in Loops : cron_loops[l].pc = "none"
          /\ cron_running' = TRUE
          /\ LET l == CHOOSE l \in Loops :
                        /\ cron_loops[l].pc = "none"
                        /\ \A k \in 1..(l - 1) : cron_loops[k].pc # "none"
             IN cron_loops' = [Requiet EXCEPT ![l].pc = "check"]
  /\ UNCHANGED cronOther

\* CronService::stop
CronStop ==
  /\ cron_running' = FALSE
  /\ cron_loops' = IF cron_running THEN Requiet ELSE cron_loops
  /\ UNCHANGED cronOther

\* the loop reads `running`: break if it is false, sleep otherwise
LoopCheck(l) ==
  /\ cron_loops[l].pc = "check"
  /\ cron_loops' = [cron_loops EXCEPT
                      ![l].pc = IF cron_running THEN "sleep" ELSE "ended"]
  /\ UNCHANGED <<cron_running, cronOther>>

\* the sleep of 30 seconds is over: the due jobs are advanced and the loop
\* is back at its test
LoopTick(l) ==
  /\ cron_loops[l].pc = "sleep"
  /\ cron_loops' = [cron_loops EXCEPT
                      ![l].pc = "check",
                      ![l].quiet = IF cron_running THEN 0 ELSE @ + 1]
  /\ UNCHANGED <<cron_running, cronOther>>

\* ------------------------------------------------------------------------
\* build_session_key (session/mod.rs)
\* ------------------------------------------------------------------------
\* the longest identifier of the model, in characters
MaxIdLen == 2
\* identifiers: strings over a letter and the separator
Identifiers == UNION {[1..k -> {"a", ":"}] : k \in 0..MaxIdLen}
Identities ==
  [agent_id : Identifiers, channel : Identifiers, chat_id : Identifiers]
\* "agent:"
StrAgentPrefix == <<"a", "g", "e", "n", "t", ":">>
\* format!("agent:{}:{}:{}", agent_id, channel, chat_id)
build_session_key(agent_id, channel, chat_id) ==
  StrAgentPrefix \o agent_id \o <<":">> \o channel \o <<":">> \o chat_id

NoIdentity == [agent_id |-> <<>>, channel |-> <<>>, chat_id |-> <<>>]
KeyInit(ids) ==
  /\ key_args \in ids \X ids
  /\ session_keys = None
KeyIdle == KeyInit({NoIdentity})

\* the keys of the two conversations are built
BuildSessionKeys ==
  /\ session_keys = None
  /\ session_keys' =
       Some([i \in 1..2 |->
               build_session_key(key_args[i].agent_id, key_args[i].channel,
                                 key_args[i].chat_id)])
  /\ UNCHANGED <<key_args, storeVars, now, objVars, gwVars, secVars, strVars,
                 lockVars, toolVars, execVars, provVars, cfgVars, cronVars,
                 fairVars>>

\* ------------------------------------------------------------------------
\* The operations that take locks, under tokio::sync::RwLock (gateway/
\* routes.rs, gateway/ws.rs, session/mod.rs, tools/mod.rs)
\* ------------------------------------------------------------------------
\* the number of tasks that run an operation at the same time
MaxLiveTasks == 2
LiveTasks == 1..MaxLiveTasks
\* x.write().await
Write(r) == <<"write", r>>

\* the session-store operations with the read guard of get_or_create kept
\* until the function returns
StoreOps_GuardKept ==
  [get_or_create_hit |-> <<<<"read", "sessions">>, <<"drop", "sessions">>>>,
   get_or_create |-> <<<<"read", "sessions">>, <<"write", "sessions">>,
                       <<"drop", "sessions">>>>,
   update |-> <<<<"write", "sessions">>, <<"drop", "sessions">>>>,
   get |-> <<<<"read", "sessions">>, <<"drop", "sessions">>>>,
   remove |-> <<<<"write", "sessions">>, <<"drop", "sessions">>>>,
   register |-> <<<<"write", "tools">>, <<"drop", "tools">>>>,
   tool_get |-> <<<<"read", "tools">>, <<"drop", "tools">>>>]
\* the operations of SessionManager and ToolRegistry that the handlers do
\* not call: get_or_create drops its read guard at the end of the block (line
\* 140) before it asks for the write lock (143); every other operation holds
\* one guard from its first statement to its return
StoreOps ==
  [get_or_create_hit |-> <<Read("sessions"), Drop("sessions")>>,
   get_or_create |-> <<Read("sessions"), Drop("sessions"),
                       Write("sessions"), Drop("sessions")>>,
   update |-> <<Write("sessions"), Drop("sessions")>>,
   get |-> <<Read("sessions"), Drop("sessions")>>,
   remove |-> <<Write("sessions"), Drop("sessions")>>,
   register |-> <<Write("tools"), Drop("tools")>>,
   tool_get |-> <<Read("tools"), Drop("tools")>>]
\* the handlers, and the store operations other tasks run beside them
\* (list_keys, count and list_definitions run inside the handlers)
OpNames == HandlerNames \cup DOMAIN StoreOps
OpSteps(name) ==
  IF name \in HandlerNames THEN Handlers[name] ELSE StoreOps[name]

NoOp == [op |-> "", pc |-> 0, waiting |-> FALSE]
FairInit ==
  /\ running_ops = [t \in LiveTasks |-> NoOp]
  /\ fair_locks = [r \in Resources |->
                     [readers |-> {}, writer |-> None, queue |-> <<>>]]
FairIdle == FairInit

\* the step of its operation a task is about to perform, if any
NextStep(t) ==
  LET o == running_ops[t]
  IN IF o.op # "" /\ o.pc <= Len(OpSteps(o.op))
       THEN Some(OpSteps(o.op)[o.pc]) ELSE None
\* the resources a task holds a guard of
HeldBy(t) ==
  {r \in Resources :
     t \in fair_locks[r].readers \/ fair_locks[r].writer = Some(t)}
\* the lock can be given in that mode: a read guard beside other readers, a
\* write guard when nobody holds the lock
Grantable(r, mode) ==
  /\ fair_locks[r].writer = None
  /\ mode = "write" => fair_locks[r].readers = {}
\* the lock r with task t given a guard in that mode
Granted(r, t, mode) ==
  IF mode = "read" THEN [fair_locks[r] EXCEPT !.readers = @ \cup {t}]
  ELSE [fair_locks[r] EXCEPT !.writer = Some(t)]

fairOther ==
  <<storeVars, now, objVars, gwVars, secVars, strVars, lockVars, toolVars,
    execVars, provVars, cfgVars, cronVars, keyVars>>

\* a task starts an operation
OpStart(t, name) ==
  /\ running_ops[t].op = ""
  /\ running_ops' = [running_ops EXCEPT ![t] = [op |-> name, pc |-> 1,
                                                waiting |-> FALSE]]
  /\ UNCHANGED <<fair_locks, fairOther>>

\* read().await or write().await is polled: the guard is returned at once
\* if nobody waits and the lock can be given, else the task joins the queue
OpAcquire(t) ==
  /\ IsSome(NextStep(t))
  /\ ~running_ops[t].waiting
  /\ LET mode == Unwrap(NextStep(t))[1]
         r == Unwrap(NextStep(t))[2]
     IN /\ mode \in {"read", "write"}
        /\ IF fair_locks[r].queue = <<>> /\ Grantable(r, mode)
             THEN /\ fair_locks' = [fair_locks EXCEPT ![r] = Granted(r, t, mode)]
                  /\ running_ops' = [running_ops EXCEPT ![t].pc = @ + 1]
             ELSE /\ fair_locks' = [fair_locks EXCEPT
                                      ![r].queue = Append(@, <<t, mode>>)]
                  /\ running_ops' = [running_ops EXCEPT ![t].waiting = TRUE]
  /\ UNCHANGED fairOther

\* the first waiter of the queue is given the lock
OpGrant(r) ==
  /\ fair_locks[r].queue # <<>>
  /\ LET t == Head(fair_locks[r].queue)[1]
         mode == Head(fair_locks[r].queue)[2]
     IN /\ Grantable(r, mode)
        /\ fair_locks' = [fair_locks EXCEPT
                            ![r] = [Granted(r, t, mode) EXCEPT
                                      !.queue = Tail(@)]]
        /\ running_ops' = [running_ops EXCEPT ![t].pc = @ + 1,
                                              ![t].waiting = FALSE]
  /\ UNCHANGED fairOther

\* a guard goes out of scope
OpRelease(t) ==
  /\ IsSome(NextStep(t))
  /\ LET r == Unwrap(NextStep(t))[2]
     IN /\ Unwrap(NextStep(t))[1] = "drop"
        /\ fair_locks' = [fair_locks EXCEPT
                            ![r].readers = @ \ {t},
                            ![r].writer = IF @ = Some(t) THEN None ELSE @]
  /\ running_ops' = [running_ops EXCEPT ![t].pc = @ + 1]
  /\ UNCHANGED fairOther

\* the operation returns
OpReturn(t) ==
  /\ running_ops[t].op # ""
  /\ ~IsSome(NextStep(t))
  /\ running_ops' = [running_ops EXCEPT ![t] = NoOp]
  /\ UNCHANGED <<fair_locks, fairOther>>

\* ------------------------------------------------------------------------
\* Specifications
\* ------------------------------------------------------------------------
\* everything outside the session store, the gateway, the secret comparison
\* and the streaming call, at rest
MoreIdle == CfgIdle /\ CronIdle /\ KeyIdle /\ FairIdle
ExtIdle == LockIdle /\ ToolIdle /\ ExecIdle /\ ProvIdle /\ MoreIdle
ClockInit == now = 0
StoreIdle == StoreInit({GatewaySessions})
GwIdle ==
  /\ auth_token = None
  /\ http = [state |-> "none", request |-> NoRequest, status |-> 0,
             body |-> "", handled |-> FALSE]
  /\ ws = [state |-> "none", request |-> NoRequest, out |-> <<>>,
           dispatched |-> <<>>, recv |-> 0, seen |-> <<>>]

StreamIdle == StreamInit({<<>>}, {ChannelCapacity}, {"eof"})

\* the steps of the callers in T on the keys in K, constructing up to ids
\* sessions
StoreNext(T, K, ids) ==
  \/ \E t \in T, k \in K : GocRead(t, k)
  \/ \E t \in T : GocNew(t, ids)
  \/ \E t \in T : GocWrite(t)
  \/ \E t \in T : Update(t)
  \/ \E t \in T, k \in K : Get(t, k)
  \/ \E t \in T, k \in K : Remove(t, k)
  \/ \E t \in T : Turn(t)
  \/ Tick

\* concurrent turns on one key
Init == StoreInit(0..MaxCap) /\ ClockInit /\ ObjInit /\ GwIdle /\ SecInit
  /\ StreamIdle /\ ExtIdle
Next == StoreNext(Tasks, TurnKeys, RaceIds)
Spec == Init /\ [][Next]_vars

\* one caller, every key
SeqNext == StoreNext(SeqTasks, Keys, MaxIds)
SeqSpec == Init /\ [][SeqNext]_vars

\* concurrent get_or_create, update and remove on a store of capacity >= 1
CapInit == StoreInit(1..MaxCap) /\ ClockInit /\ ObjInit /\ GwIdle /\ SecInit
  /\ StreamIdle /\ ExtIdle
CapNext ==
  \/ \E t \in Tasks, k \in RaceKeys : GocRead(t, k)
  \/ \E t \in Tasks : GocNew(t, RaceIds)
  \/ \E t \in Tasks : GocWrite(t)
  \/ \E t \in Tasks : Update(t)
  \/ \E t \in Tasks, k \in RaceKeys : Remove(t, k)
  \/ Tick
CapSpec == CapInit /\ [][CapNext]_vars

\* one Session object
ObjNext ==
  \/ AddUserMessage
  \/ AddAssistantMessage
  \/ AddToolResult
  \/ AddAssistantToolUse
  \/ Tick
ObjSpecInit == StoreIdle /\ ClockInit /\ ObjInit /\ GwIdle /\ SecInit
  /\ StreamIdle /\ ExtIdle
ObjSpec == ObjSpecInit /\ [][ObjNext]_vars

\* HTTP requests to the protected router
HttpInit == StoreIdle /\ ClockInit /\ ObjInit /\ GwInit /\ SecInit
  /\ StreamIdle /\ ExtIdle
HttpNext ==
  \/ \E r \in Requests(ProtectedPaths) : HttpRequest(r)
  \/ HttpDone
HttpSpec == HttpInit /\ [][HttpNext]_vars

\* one WebSocket connection
WsNext ==
  \/ \E r \in WsRequests, ok \in BOOLEAN : WsUpgrade(r, ok)
  \/ \E m \in WsMessages, ok \in BOOLEAN : WsText(m, ok)
  \/ \E ok \in BOOLEAN : WsBadText(ok)
  \/ \E d \in {"", "p"}, ok \in BOOLEAN : WsPing(d, ok)
  \/ \E k \in {"binary", "pong"} : WsOther(k)
  \/ WsClose
  \/ WsRecvEnd
WsSpec == HttpInit /\ [][WsNext]_vars

\* calls of safe_equal_secret
SecretInputs == {None} \cup {Some(x) : x \in Secrets}
SecretNext ==
  \/ \E p \in SecretInputs, e \in SecretInputs : SecretCall(p, e)
  \/ CtEqStep
  \/ CtEqReturn
  \/ SecretDone
SecretSpecInit == StoreIdle /\ ClockInit /\ ObjInit /\ GwIdle /\ SecInit
  /\ StreamIdle /\ ExtIdle
SecretSpec == SecretSpecInit /\ [][SecretNext]_vars

\* a streaming call whose upstream holds message_stop and [DONE] records
PingRecord == Record(Some(Str_ping), StrEmptyObject)
MessageStopRecord == Record(Some(Str_message_stop), StrEmptyObject)
DeltaRecord(i) == Record(Some(Str_content_block_delta), IndexPayload(i))
StopRecords == {PingRecord, MessageStopRecord, DeltaRecord(0), DoneRecord}
StopBodies == SeqsUpTo(StopRecords, MaxRecords)
NoStreamInit == StoreIdle /\ ClockInit /\ ObjInit /\ GwIdle /\ SecInit
  /\ ExtIdle
StopInit ==
  NoStreamInit /\ StreamInit(StopBodies, {ChannelCapacity}, {"eof", "error"})
StreamNextStep == StreamSteps(ChunkLens)
StopSpec == StopInit /\ [][StreamNextStep]_vars

\* the stream of the translation example, in chunks cut anywhere
ExampleBody ==
  <<Record(Some(Str_message_start), StrEmptyObject),
    Record(Some(Str_content_block_start), IndexPayload(1)),
    DeltaRecord(1), DeltaRecord(1), DeltaRecord(1),
    Record(Some(Str_content_block_stop), IndexPayload(1)),
    Record(Some(Str_message_delta), StrEmptyObject),
    MessageStopRecord>>
ChunkInit ==
  NoStreamInit
    /\ StreamInit({ExampleBody}, {ChannelCapacity}, {"eof", "error"})
AnyChunkLens == 1..(Len(upstream) - upos)
ChunkNext == StreamSteps(AnyChunkLens)
ChunkSpec == ChunkInit /\ [][ChunkNext]_vars

\* the event a record stands for: its event type and the index of its payload
ExpectedOf(rec) ==
  IF IsSome(rec.event) /\ IsSome(from_str(rec.data))
    THEN EventFor(Unwrap(rec.event), Unwrap(from_str(rec.data)))
    ELSE None
RECURSIVE ExpectedEvents(_)
ExpectedEvents(recs) ==
  IF recs = <<>> THEN <<>>
  ELSE (IF IsSome(ExpectedOf(Head(recs)))
          THEN <<Unwrap(ExpectedOf(Head(recs)))>> ELSE <<>>)
         \o ExpectedEvents(Tail(recs))

\* the ordering of the block events of a sequence of events: a block's start
\* comes first and once, its deltas follow the start, its stop ends it
IsBlockEvent(e, type, index) == e.type = type /\ e.index = Some(index)
BlockOrdered(events) ==
  \A p \in 1..Len(events) : \A i \in 0..2 :
    /\ IsBlockEvent(events[p], "ContentBlockStart", i) =>
         \A q \in 1..(p - 1) : events[q].index # Some(i)
    /\ (\/ IsBlockEvent(events[p], "ContentBlockDelta", i)
        \/ IsBlockEvent(events[p], "ContentBlockStop", i)) =>
         /\ \E q \in 1..(p - 1) :
               IsBlockEvent(events[q], "ContentBlockStart", i)
         /\ \A q \in 1..(p - 1) :
               ~IsBlockEvent(events[q], "ContentBlockStop", i)

\* a streaming call whose upstream holds the records of blocks in order, one
\* of them possibly with a payload that is cut off
StartRecord(i) == Record(Some(Str_content_block_start), IndexPayload(i))
StopRecord(i) == Record(Some(Str_content_block_stop), IndexPayload(i))
BlockRecords ==
  {StartRecord(i) : i \in 0..1} \cup {DeltaRecord(i) : i \in 0..1}
    \cup {StopRecord(i) : i \in 0..1}
OrderedBodies ==
  {b \in SeqsUpTo(BlockRecords, MaxRecords) :
     BlockOrdered(ExpectedEvents(b))}
CutOff(body, j) ==
  [p \in 1..Len(body) |->
     IF p = j THEN Record(body[p].event, StrTruncated) ELSE body[p]]
OrderBodies ==
  {CutOff(b, j) : b \in OrderedBodies, j \in 0..MaxRecords}
OrderInit ==
  NoStreamInit
    /\ StreamInit(OrderBodies, {ChannelCapacity}, {"eof", "error"})
OrderSpec == OrderInit /\ [][StreamNextStep]_vars

\* a streaming call whose consumer may go away while the upstream goes on:
\* the producer task is scheduled whenever it can take a step
UnknownRecord == Record(Some(Str_unknown), StrEmptyObject)
\* the longest upstream of the liveness specification, in records
MaxLiveRecords == 2
LiveBodies ==
  SeqsUpTo({PingRecord, UnknownRecord}, MaxLiveRecords) \ {<<>>}
LiveInit ==
  NoStreamInit
    /\ StreamInit(LiveBodies, {1}, {"eof", "error", "repeat"})
ProducerStep ==
  \/ \E k \in ChunkLens : StreamNext(k)
  \/ StreamEof
  \/ StreamErr
  \/ TxSendOk
  \/ TxSendErr
LiveNext == StreamNextStep \/ StreamRepeat
LiveSpec ==
  LiveInit /\ [][LiveNext]_vars /\ WF_vars(ProducerStep)
    /\ WF_vars(StreamRepeat)

\* a streaming call over a channel of small capacity
BackBodies == SeqsUpTo({PingRecord, DeltaRecord(0)}, MaxRecords)
BackInit ==
  NoStreamInit /\ StreamInit(BackBodies, 1..MaxChan, {"eof", "error"})
BackSpec == BackInit /\ [][StreamNextStep]_vars

\* a streaming call whose upstream holds records of an unrecognized type
\* among records of recognized types
RecognizedTypes ==
  {Str_message_start, Str_content_block_start, Str_content_block_delta,
   Str_content_block_stop, Str_message_delta, Str_message_stop, Str_ping,
   Str_error}
IsUnrecognized(rec) ==
  IsSome(rec.event) /\ Unwrap(rec.event) \notin RecognizedTypes
UnknownRecords ==
  {UnknownRecord, Record(Some(Str_unknown), IndexPayload(1)),
   Record(Some(Str_unknown), StrTruncated)}
UnknownBodies ==
  {b \in SeqsUpTo(UnknownRecords
                    \cup {PingRecord, StartRecord(1), DeltaRecord(1)},
                  MaxRecords) :
     \E p \in 1..Len(b) : IsUnrecognized(b[p])}
UnknownInit ==
  NoStreamInit
    /\ StreamInit(UnknownBodies, {ChannelCapacity}, {"eof", "error"})
UnknownSpec == UnknownInit /\ [][StreamNextStep]_vars

\* gateway handlers running at the same time, beside the writers of the
\* session map and the tool map
CoreIdle == StoreIdle /\ ClockInit /\ ObjInit /\ GwIdle /\ SecInit /\ MoreIdle
  /\ StreamIdle
LockSpecInit == CoreIdle /\ LockInit /\ ToolIdle /\ ExecIdle /\ ProvIdle
LockNext ==
  \/ \E t \in GwTasks, name \in HandlerNames : HandlerStart(t, name)
  \/ \E t \in GwTasks : HandlerRead(t)
  \/ \E t \in GwTasks : HandlerDrop(t)
  \/ \E t \in GwTasks : HandlerReturn(t)
  \/ \E r \in Resources : WriteLock(r)
  \/ \E r \in Resources : WriteUnlock(r)
LockSpec == LockSpecInit /\ [][LockNext]_vars

\* a registry with any policy over the tool names, registrations and listings
ToolSpecInit == CoreIdle /\ LockIdle /\ ExecIdle /\ ProvIdle
  /\ ToolInit(SUBSET ToolNames, SUBSET ToolNames)
ToolNext ==
  \/ \E tool \in RegisteredTools : register(tool)
  \/ list_definitions
ToolSpec == ToolSpecInit /\ [][ToolNext]_vars

\* calls of the built-in tools that work on files
FileToolNames == {"Read", "Write", "Edit", "nonexistent"}
FileToolInit == CoreIdle /\ LockIdle /\ ToolIdle /\ ProvIdle
  /\ ExecInit(FileTexts, BOOLEAN)
FileToolNext ==
  \E name \in FileToolNames :
    \E input \in ToolInputs(name), io \in WriteOutcomes :
      ToolCall(name, input, io)
FileToolSpec == FileToolInit /\ [][FileToolNext]_vars

\* one call of exec
ShellInit == CoreIdle /\ LockIdle /\ ToolIdle /\ ExecIdle /\ ProvIdle
ShellNext ==
  \/ \E input \in ExecInputs, spawned \in BOOLEAN : ExecStart(input, spawned)
  \/ ExecTick
  \/ \E code \in ExitCodes : ExecExit(code)
  \/ ExecTimeout
ShellSpec == ShellInit /\ [][ShellNext]_vars

\* calls of complete() over the answers of the upstream, in both builds
CompleteInit ==
  /\ CoreIdle /\ LockIdle /\ ToolIdle
  /\ ExecInit({<<>>}, BOOLEAN)
  /\ ProvInit(Responses, {NoRequestBody})
CompleteSpec == CompleteInit /\ [][Complete]_vars

\* calls of build_request_body over the histories of the model
BodyInit ==
  /\ CoreIdle /\ LockIdle /\ ToolIdle /\ ExecIdle
  /\ ProvInit({NoResponse},
              Requests_({None} \cup {Some(t) : t \in MessageTexts}))
BodySpec == BodyInit /\ [][BuildRequestBody]_vars

\* the idle state of everything modelled before the configuration
OldIdle ==
  /\ StoreIdle /\ ClockInit /\ ObjInit /\ GwIdle /\ SecInit /\ StreamIdle
  /\ LockIdle /\ ToolIdle /\ ExecIdle /\ ProvIdle

\* the config handlers on every configuration
ConfigInit ==
  OldIdle /\ CronIdle /\ KeyIdle /\ FairIdle /\ CfgInit(OpenClawConfigs)
ConfigNext == GetConfig \/ WsConfigGet
ConfigSpec == ConfigInit /\ [][ConfigNext]_vars

\* the same answer given to a call of complete() and to a call of stream()
StatusSpec == CompleteInit /\ [][Complete \/ Stream]_vars

\* the registry filled by register_builtins under a policy, and one call of
\* execute_tool for a name the registry advertises
BuiltinPolicyNames == {"exec", "message"}
BuiltinInit ==
  /\ StoreIdle /\ ClockInit /\ ObjInit /\ GwIdle /\ SecInit /\ StreamIdle
  /\ LockIdle /\ ProvIdle /\ MoreIdle
  /\ ToolInit(SUBSET BuiltinPolicyNames, SUBSET BuiltinPolicyNames)
  /\ ExecInit({<<>>}, {FALSE})
BuiltinNext ==
  \/ register_builtins
  \/ \E name \in Advertised \ {"exec"} :
       \E input \in ToolInputs(name), io \in WriteOutcomes :
         ToolCall(name, input, io)
  \/ /\ "exec" \in Advertised
     /\ \E input \in ExecInputs, spawned \in BOOLEAN : ExecStart(input, spawned)
BuiltinSpec == BuiltinInit /\ [][BuiltinNext]_vars

\* a streaming call whose upstream holds records without an event: line
DataOnlyRecord == Record(None, StrEmptyObject)
DataOnlyRecords == {PingRecord, DeltaRecord(0), DataOnlyRecord, DoneRecord}
DataOnlyBodies == SeqsUpTo(DataOnlyRecords, MaxRecords)
DataOnlyInit ==
  /\ StoreIdle /\ ClockInit /\ ObjInit /\ GwIdle /\ SecInit /\ ExtIdle
  /\ StreamInit(DataOnlyBodies, {ChannelCapacity}, {"eof"})
DataOnlySpec == DataOnlyInit /\ [][StreamNextStep]_vars

\* calls of start and stop beside the tick loops they spawn
CronSpecInit == OldIdle /\ CfgIdle /\ KeyIdle /\ FairIdle /\ CronInit
CronNext ==
  \/ CronStart
  \/ CronStop
  \/ \E l \in Loops : LoopCheck(l)
  \/ \E l \in Loops : LoopTick(l)
CronSpec == CronSpecInit /\ [][CronNext]_vars

\* the session keys of every two identities
KeySpecInit ==
  OldIdle /\ CfgIdle /\ CronIdle /\ FairIdle /\ KeyInit(Identities)
KeySpec == KeySpecInit /\ [][BuildSessionKeys]_vars

\* handlers and store operations on fair locks, every task scheduled
\* whenever it can take a step
FairSpecInit == OldIdle /\ CfgIdle /\ CronIdle /\ KeyIdle /\ FairInit
FairNext ==
  \/ \E t \in LiveTasks, name \in OpNames : OpStart(t, name)
  \/ \E t \in LiveTasks : OpAcquire(t)
  \/ \E r \in Resources : OpGrant(r)
  \/ \E t \in LiveTasks : OpRelease(t)
  \/ \E t \in LiveTasks : OpReturn(t)
FairSpec ==
  /\ FairSpecInit /\ [][FairNext]_vars
  /\ \A t \in LiveTasks :
       /\ WF_vars(OpAcquire(t))
       /\ WF_vars(OpRelease(t))
       /\ WF_vars(OpReturn(t))
  /\ \A r \in Resources : WF_vars(OpGrant(r))

\* ------------------------------------------------------------------------
\* Properties
\* ------------------------------------------------------------------------
IsPrefix(a, b) == Len(a) <= Len(b) /\ SubSeq(b, 1, Len(a)) = a

\* the key of the get_or_create that task t is completing
WriteKey(t) == Unwrap(arg[t])

\* C1: get_or_create of a key that is not stored, on a store of capacity
\* N >= 1 that holds exactly N sessions, leaves exactly N sessions: the new key
\* is stored, exactly one prior entry is gone, that entry had the smallest
\* updated_at, and every other prior entry is stored unchanged.
C1_EvictsOldest ==
  [][\A t \in Tasks :
       (/\ pc[t] = "goc_write"
        /\ GocWrite(t)
        /\ max_sessions >= 1
        /\ MapLen(sessions) = max_sessions
        /\ WriteKey(t) \notin DOMAIN sessions)
       => /\ MapLen(sessions') = max_sessions
          /\ WriteKey(t) \in DOMAIN sessions'
          /\ \E e \in DOMAIN sessions :
               /\ e \notin DOMAIN sessions'
               /\ \A o \in DOMAIN sessions :
                     sessions[e].updated_at <= sessions[o].updated_at
               /\ \A o \in DOMAIN sessions \ {e} :
                     o \in DOMAIN sessions' /\ sessions'[o] = sessions[o]]_vars

\* a get_or_create has just evicted from a full store of capacity 2 whose two
\* sessions had different ages
C1_Witness ==
  /\ last = "goc_evict"
  /\ max_sessions = 2
  /\ MapLen(sessions) = 2
  /\ \E k \in DOMAIN sessions : sessions[k].updated_at < now
  /\ \E t \in Tasks :
       /\ IsSome(held[t])
       /\ Unwrap(held[t]).key \in DOMAIN sessions
       /\ sessions[Unwrap(held[t]).key] = Unwrap(held[t])
       /\ Unwrap(held[t]).id = nextId

\* C2: count() never exceeds max_sessions.
C2_CountBounded == count <= max_sessions

\* C3: a get_or_create that reaches its insertion while the key is stored (and
\* the store is below capacity, so nothing is evicted) returns the stored
\* session and leaves it as it is.
C3_ReturnsStored ==
  [][\A t \in Tasks :
       (/\ pc[t] = "goc_write"
        /\ GocWrite(t)
        /\ WriteKey(t) \in DOMAIN sessions
        /\ MapLen(sessions) < max_sessions)
       => /\ sessions'[WriteKey(t)] = sessions[WriteKey(t)]
          /\ Unwrap(held'[t]).id = sessions[WriteKey(t)].id]_vars

FreshCopy(t) ==
  /\ IsSome(held[t])
  /\ Unwrap(held[t]).key \in DOMAIN sessions
  /\ borrowed[t] = Some(sessions[Unwrap(held[t]).key])

C5_UpdateUpserts ==
  [][\A t \in Tasks :
       /\ (pc[t] = "idle" /\ IsSome(held[t]) /\ Update(t))
            => /\ MapGet(sessions', Unwrap(held[t]).key) = held[t]
               /\ \A k \in Keys \ {Unwrap(held[t]).key} :
                     MapGet(sessions', k) = MapGet(sessions, k)
       /\ (pc[t] = "idle" /\ IsSome(held[t]) /\ Turn(t))
            => sessions' = sessions]_vars

\* an update has just stored a session under a key that was not stored, next
\* to another session
C5_Witness ==
  /\ last = "update_new"
  /\ MapLen(sessions) = 2
  /\ \E t \in Tasks :
       /\ IsSome(held[t])
       /\ MapGet(sessions, Unwrap(held[t]).key) = held[t]
       /\ message_count(Unwrap(held[t])) >= 1

HeaderPresents(request, token) ==
  /\ IsSome(request.authorization)
  /\ Unwrap(request.authorization)
       \in {StrBearer \o token, StrBearerLower \o token}

\* the request carries the token as a query parameter token=<token>
QueryPresents(request, token) ==
  /\ IsSome(request.query)
  /\ LET params == Split(Unwrap(request.query), 38)
     IN \E i \in 1..Len(params) : params[i] = StrTokenEq \o token

PresentsToken(request, token) ==
  HeaderPresents(request, token) \/ QueryPresents(request, token)

\* C7: without a token every request reaches its handler; with a token a
\* request to a path other than the health paths reaches its handler exactly
\* when it presents the token in the header or in the query, and is answered
\* 401 otherwise; the health paths are always answered 200.
C7_PassIffPresents ==
  http.state = "done" =>
    /\ ~IsSome(auth_token) => http.handled
    /\ http.request.path \in HealthPaths =>
         http.handled /\ http.status = 200
    /\ (IsSome(auth_token) /\ http.request.path \notin HealthPaths) =>
         /\ http.handled <=> PresentsToken(http.request, Unwrap(auth_token))
         /\ ~http.handled => http.status = 401

\* C8: with a token configured, a connection attempt at /ws that does not
\* present it is sent no hello and has no method dispatched.
C8_WsRefused ==
  (/\ IsSome(auth_token)
   /\ ws.state # "none"
   /\ ~PresentsToken(ws.request, Unwrap(auth_token)))
  => ws.out = <<>> /\ ws.dispatched = <<>>

C10_WorkByLength ==
  (sec.pc = "done" /\ IsSome(sec.provided) /\ IsSome(sec.expected)) =>
    sec.work = IF Len(Unwrap(sec.provided)) = Len(Unwrap(sec.expected))
                 THEN Len(Unwrap(sec.provided)) ELSE 0

\* two secrets of the same length that differ in their first byte were
\* compared to the end
C10_Witness ==
  /\ sec.pc = "done"
  /\ IsSome(sec.provided) /\ IsSome(sec.expected)
  /\ Len(Unwrap(sec.provided)) = 2 /\ Len(Unwrap(sec.expected)) = 2
  /\ Unwrap(sec.provided)[1] # Unwrap(sec.expected)[1]
  /\ sec.work = 2

\* the request carries no credential at all: no Authorization header and no
\* token= query parameter
NoCredential(request) ==
  /\ ~IsSome(request.authorization)
  /\ \/ ~IsSome(request.query)
     \/ LET params == Split(Unwrap(request.query), 38)
        IN \A i \in 1..Len(params) :
              ~IsSome(strip_prefix(params[i], StrTokenEq))

\* the request carries a credential, and no credential it carries is the token
WrongCredential(request, token) ==
  ~NoCredential(request) /\ ~PresentsToken(request, token)

\* C11: with a token configured, on every path other than the health paths a
\* request without a credential and a request with a wrong credential get the
\* same response: status 401 and the same (empty) body.
C11_DenialsIdentical ==
  (/\ http.state = "done"
   /\ IsSome(auth_token)
   /\ http.request.path \notin HealthPaths
   /\ \/ NoCredential(http.request)
      \/ WrongCredential(http.request, Unwrap(auth_token)))
  => /\ ~http.handled
     /\ [status |-> http.status, body |-> http.body]
          = [status |-> 401, body |-> ""]

\* a request with a Bearer header that carries a wrong token was refused
C11_Witness ==
  /\ http.state = "done"
  /\ IsSome(auth_token)
  /\ http.request.path = "/v1/status"
  /\ IsSome(http.request.authorization)
  /\ IsSome(extract_bearer_token(Unwrap(http.request.authorization)))
  /\ Unwrap(extract_bearer_token(Unwrap(http.request.authorization)))
       \notin {Unwrap(auth_token), <<>>}
  /\ WrongCredential(http.request, Unwrap(auth_token))
  /\ http.status = 401

\* C12: once the consumer has received a MessageStop it receives no further
\* event of the call.
C12_StopTerminal ==
  [][(\E i \in 1..Len(received) : received[i] = MessageStop)
       => received' = received]_vars

\* the position of the first [DONE] record of the upstream, 0 if none
FirstDone ==
  IF \E i \in 1..Len(records) : records[i] = DoneRecord
    THEN CHOOSE i \in 1..Len(records) :
           /\ records[i] = DoneRecord
           /\ \A j \in 1..(i - 1) : records[j] # DoneRecord
    ELSE 0

\* the events emitted so far, received or still in the channel
Emitted == received \o chan

\* C13: when the upstream holds a [DONE] record, the events emitted for the
\* call are those of the records before it followed by one MessageStop: no
\* event follows that MessageStop, the task has ended (the channel is closed)
\* as soon as it is emitted, and a consumer that sees the channel closed has
\* received all of them, MessageStop last.
C13_DoneEndsStream ==
  (FirstDone > 0 /\ rx # "dropped") =>
    LET expected ==
          ExpectedEvents(SubSeq(records, 1, FirstDone - 1)) \o <<MessageStop>>
    IN /\ IsPrefix(Emitted, expected)
       /\ Len(Emitted) = Len(expected) => ppc = "done"
       /\ ppc = "done" => Emitted = expected
       /\ rx = "ended" => received = expected

\* the consumer saw the channel close after a [DONE] in the middle of the
\* upstream, with a record before it and a record after it
C13_Witness ==
  /\ rx = "ended"
  /\ records = <<PingRecord, DoneRecord, PingRecord>>
  /\ received = <<Event("Ping", None), MessageStop>>
  /\ upos < Len(upstream)

\* the events of the records of the example, one per record
ExampleEvents ==
  <<Event("MessageStart", None),
    Event("ContentBlockStart", Some(1)),
    Event("ContentBlockDelta", Some(1)),
    Event("ContentBlockDelta", Some(1)),
    Event("ContentBlockDelta", Some(1)),
    Event("ContentBlockStop", Some(1)),
    Event("MessageDelta", None),
    MessageStop>>

\* C14: however the example stream is cut into chunks, the events emitted
\* are at every moment a prefix of the one-per-record event sequence, and when
\* the task has ended after the end of the body they are that sequence.
C14_OneEventPerRecord ==
  (records = ExampleBody /\ rx # "dropped") =>
    /\ IsPrefix(Emitted, ExampleEvents \o <<NetworkError>>)
    /\ (ppc = "done" /\ uend = "eof") => Emitted = ExampleEvents
    /\ (ppc = "done" /\ uend = "error")
         => Emitted = ExampleEvents \o <<NetworkError>>
    /\ (rx = "ended" /\ uend = "eof") => received = ExampleEvents

\* a chunk ended in the middle of the data line of the block's stop record,
\* and the consumer has received the events of the records before it
C14_Witness ==
  /\ records = ExampleBody
  /\ ppc = "read"
  /\ received = SubSeq(ExampleEvents, 1, 5)
  /\ Len(buffer) > Len(StrDataPrefix)
  /\ SubSeq(buffer, 1, Len(StrDataPrefix)) = StrDataPrefix
  /\ current_event_type = Str_content_block_stop

\* C15: the block events the consumer has received are ordered per index: a
\* start before every delta of its index, and all of them before the stop,
\* also when the payload of a record of the upstream was not valid JSON.
C15_BlockOrderKept == rx = "open" => BlockOrdered(received)

\* no two received events of one index are the other way round: no start
\* after a delta or a stop, no delta after a stop
RelativeOrderKept ==
  \A p \in 1..Len(received) : \A q \in (p + 1)..Len(received) :
    received[p].index = received[q].index =>
      /\ received[q].type = "ContentBlockStart" => FALSE
      /\ received[q].type = "ContentBlockDelta"
           => received[p].type # "ContentBlockStop"

\* C16: from every state in which the receiver is dropped the producer task
\* eventually ends.
C16_DropStopsProducer == (rx = "dropped") ~> (ppc = "done")

\* after the receiver is dropped nothing more is emitted or received
NoEventAfterDrop ==
  [][rx = "dropped" => (received' = received /\ chan' = <<>>)]_vars

\* C17 as claimed: the channel never holds more events than its capacity, and
\* while it is full no byte of the upstream is read.
C17_NoReadWhileFull ==
  /\ [](Len(chan) <= capacity)
  /\ [][Len(chan) = capacity => upos' = upos]_vars

\* C17 as amended: the channel never holds more events than its capacity, and
\* while the task has an event to send that the full channel cannot take it
\* stays in that send and reads no byte of the upstream.
C17_BlockedSendNoRead ==
  /\ [](Len(chan) <= capacity)
  /\ [][(ppc = "send" /\ rx = "open" /\ Len(chan) = capacity)
         => (upos' = upos /\ ppc' = "send" /\ tosend' = tosend
              /\ (chan' # chan =>
                    (rx' = "dropped" \/ Len(received') > Len(received))))]_vars

\* the channel of capacity 2 is full, the task is blocked in the send of a
\* third event, and part of the body has not been read
C17_Witness ==
  /\ capacity = 2
  /\ Len(chan) = 2
  /\ ppc = "send"
  /\ rx = "open"
  /\ upos < Len(upstream)

\* the upstream without its records of unrecognized type
RECURSIVE WithoutUnrecognized(_)
WithoutUnrecognized(recs) ==
  IF recs = <<>> THEN <<>>
  ELSE (IF IsUnrecognized(Head(recs)) THEN <<>> ELSE <<Head(recs)>>)
         \o WithoutUnrecognized(Tail(recs))

C19_HelloFirst ==
  ws.state # "none" =>
    IF ws.out = <<>>
      THEN ws.state = "closed" /\ ws.recv = 0 /\ ws.dispatched = <<>>
      ELSE ws.out[1] = HelloFrame

\* a frame was dispatched and answered after the hello
C19_Witness ==
  /\ Len(ws.out) = 2
  /\ ws.out[1] = HelloFrame
  /\ ws.out[2].kind = "response"
  /\ Len(ws.dispatched) = 1

\* the send of the hello failed
C19_FailedHello == ws.state = "closed" /\ ws.out = <<>>

\* C20: each frame that parses is answered with one response frame (unless
\* the send fails, which ends the connection): it carries the id of the
\* frame, and exactly one of result and error: a result for the five gateway
\* methods, otherwise the error -32601 naming the method.
C20_OneResponsePerFrame ==
  [][ws'.dispatched # ws.dispatched =>
       LET msg == ws'.dispatched[Len(ws'.dispatched)]
           method == IF IsSome(msg.method) THEN Unwrap(msg.method) ELSE ""
       IN /\ ws'.dispatched = Append(ws.dispatched, msg)
          /\ \/ ws'.out = ws.out /\ ws'.state = "closed"
             \/ /\ Len(ws'.out) = Len(ws.out) + 1
                /\ SubSeq(ws'.out, 1, Len(ws.out)) = ws.out
                /\ LET resp == ws'.out[Len(ws'.out)]
                   IN /\ resp.kind = "response"
                      /\ resp.id = msg.id
                      /\ IsSome(resp.result) # IsSome(resp.error)
                      /\ IF method \in {"gateway.status", "gateway.health",
                                        "sessions.list", "config.get",
                                        "tools.list"}
                           THEN IsSome(resp.result) /\ ~IsSome(resp.error)
                           ELSE /\ ~IsSome(resp.result)
                                /\ IsSome(resp.error)
                                /\ Unwrap(resp.error).code = -32601
                                /\ Unwrap(resp.error).method = method]_vars

\* a frame with an id and a method the gateway does not have was answered
\* with the error, after a frame without id was answered with a result
C20_Witness ==
  /\ Len(ws.dispatched) = 2
  /\ ws.dispatched[1] = [id |-> None, method |-> Some("gateway.health")]
  /\ ws.dispatched[2] = [id |-> Some("1"), method |-> Some("chat.send")]
  /\ Len(ws.out) = 3
  /\ ws.out[2] = Frame("response", None, Some("gateway.health"), None, "")
  /\ ws.out[3] = Frame("response", Some("1"), None,
                       Some([code |-> -32601, method |-> "chat.send"]), "")

\* C21: a text frame that does not parse is answered with the error -32700
\* without id and without result; the connection stays in its receive loop
\* with nothing dispatched, and nothing outside the connection changes.
C21_ParseErrorContinues ==
  [][(/\ Len(ws'.seen) = Len(ws.seen) + 1
      /\ ws'.seen[Len(ws'.seen)].kind = "badtext")
     => /\ ws'.state = "open"
        /\ ws'.dispatched = ws.dispatched
        /\ IF ws'.seen[Len(ws'.seen)].ok
             THEN ws'.out = Append(ws.out,
                    [kind |-> "response", id |-> None, result |-> None,
                     error |-> Some([code |-> -32700, method |-> ""]),
                     payload |-> ""])
             ELSE ws'.out = ws.out
        /\ UNCHANGED <<storeVars, now, objVars, auth_token, http, secVars,
                       strVars, extVars>>]_vars

\* a valid frame was dispatched and answered after a parse error was answered
C21_Witness ==
  /\ Len(ws.seen) = 2
  /\ ws.seen[1].kind = "badtext"
  /\ ws.seen[2].kind = "text"
  /\ Len(ws.out) = 3
  /\ Unwrap(ws.out[2].error).code = -32700
  /\ ws.out[3] = handle_ws_method(ws.seen[2].data)
  /\ ws.dispatched = <<ws.seen[2].data>>

\* C22: a ping is answered with a pong of the same payload, and a close frame
\* is the last frame the connection reads: the loop has ended, and nothing
\* after it is dispatched or answered.
C22_PongAndClose ==
  /\ [][(/\ Len(ws'.seen) = Len(ws.seen) + 1
          /\ ws'.seen[Len(ws'.seen)].kind = "ping")
         => LET ping == ws'.seen[Len(ws'.seen)]
            IN /\ ws'.dispatched = ws.dispatched
               /\ IF ping.ok
                    THEN ws'.out = Append(ws.out,
                           [kind |-> "pong", id |-> None, result |-> None,
                            error |-> None, payload |-> ping.data])
                    ELSE ws'.out = ws.out]_vars
  /\ [](\A i \in 1..Len(ws.seen) :
          ws.seen[i].kind = "close" => i = Len(ws.seen) /\ ws.state = "closed")
  /\ [][(ws.seen # <<>> /\ ws.seen[Len(ws.seen)].kind = "close")
          => ws' = ws]_vars

\* a ping with a payload was answered, then a close frame was received
C22_Witness ==
  /\ Len(ws.seen) = 2
  /\ ws.seen[1] = Seen("ping", "p", TRUE)
  /\ ws.seen[2].kind = "close"
  /\ ws.out = <<HelloFrame, Frame("pong", None, None, None, "p")>>
  /\ ws.state = "closed"

\* C23: a gateway task holds at most one of the locks of the shared
\* resources, and holds none while it acquires or waits for one.
C23_OneLockAtATime ==
  \A t \in GwTasks :
    /\ Cardinality(Holds(t)) <= 1
    /\ (IsSome(NextOp(t)) /\ Unwrap(NextOp(t))[1] = "read") => Holds(t) = {}

\* outside the status handler a task holds at most one lock and none while
\* it takes one
OneLockOutsideStatus ==
  \A t \in GwTasks :
    handlers[t].handler # "status" =>
      /\ Cardinality(Holds(t)) <= 1
      /\ (IsSome(NextOp(t)) /\ Unwrap(NextOp(t))[1] = "read") => Holds(t) = {}

\* the status handler waits for the session map, write-locked by another
\* task, with the read lock of the configuration in its hands
StatusWaitsHoldingConfig ==
  \E t \in GwTasks :
    /\ handlers[t].handler = "status"
    /\ Holds(t) = {"config"}
    /\ NextOp(t) = Some(Read("sessions"))
    /\ rwlocks["sessions"].writer

\* the names handed to register so far
RegisteredNames == {registered[i].name : i \in 1..Len(registered)}

\* C24: is_allowed(name) is false exactly for a name on the deny list and not
\* on the allow list, and list_definitions returns one definition for each
\* registered name that is allowed, none for any other name.
C24_PolicyFiltersListing ==
  /\ \A name \in ToolNames :
       is_allowed(name) <=> ~(name \in deny_list /\ name \notin allow_list)
  /\ IsSome(listed) =>
       LET defs == Unwrap(listed)
       IN \A name \in ToolNames :
            Cardinality({i \in 1..Len(defs) : defs[i].name = name})
              = IF /\ name \in RegisteredNames
                   /\ ~(name \in deny_list /\ name \notin allow_list)
                  THEN 1 ELSE 0

\* a name on both lists, a name on the deny list only and a name on neither
\* were registered, the first one twice, and the listing holds the first and
\* the third
C24_Witness ==
  /\ deny_list = {"Read", "exec"}
  /\ allow_list = {"Read"}
  /\ Len(registered) = 3
  /\ RegisteredNames = {"Read", "exec"}
  /\ IsSome(listed)
  /\ Len(Unwrap(listed)) = 1
  /\ Unwrap(listed)[1].name = "Read"

\* C25: no call of a built-in panics: every call returns a ToolResult.
C25_NoPanic == tcall.out.kind = "return"

\* the arguments of the last call, as execute_read takes them
ReadOffset == unwrap_or(as_u64(tcall.input.offset), DefaultOffset)
ReadLimit == unwrap_or(as_u64(tcall.input.limit), DefaultLimit)
\* the last call read a file that exists
ReadOfFile ==
  /\ tcall.name = "Read"
  /\ IsSome(as_str(tcall.input.file_path))
  /\ Unwrap(as_str(tcall.input.file_path)) \in Paths
  /\ IsSome(tcall.before[Unwrap(as_str(tcall.input.file_path))])
ReadLines == lines(Unwrap(tcall.before[Unwrap(as_str(tcall.input.file_path))]))

\* a Read whose window does not pass the end of the machine word returns
\* a ToolResult
ReadInRangeReturns ==
  (ReadOfFile
     /\ min(saturating_sub(ReadOffset, 1), Len(ReadLines)) + ReadLimit
          <= UsizeMax)
    => tcall.out.kind = "return"
\* every call of Write, of Edit and of an unknown tool returns a ToolResult
OtherToolsReturn == tcall.name # "Read" => tcall.out.kind = "return"

\* C28: a Read of a file of T lines with offset o (absent or 0: 1) and limit
\* l (absent: 2000) returns lines o to min(o + l - 1, T) and reports
\* total_lines = T and returned_lines, the number of lines returned, at most l.
C28_ReadWindow ==
  ReadOfFile =>
    LET T == Len(ReadLines)
        o == IF ReadOffset = 0 THEN 1 ELSE ReadOffset
        l == ReadLimit
        upto == IF o + l - 1 <= T THEN o + l - 1 ELSE T
        expected == IF o > T THEN <<>> ELSE SubSeq(ReadLines, o, upto)
    IN /\ tcall.out.kind = "return"
       /\ ~tcall.out.result.is_error
       /\ tcall.out.result.content = join(expected)
       /\ tcall.out.result.metadata =
            {<<"total_lines", T>>, <<"returned_lines", Len(expected)>>}
       /\ Len(expected) <= l

\* the same for the windows that do not pass the end of the machine word
ReadWindowInRange ==
  (ReadOfFile
     /\ min(saturating_sub(ReadOffset, 1), Len(ReadLines)) + ReadLimit
          <= UsizeMax)
    => C28_ReadWindow

\* the last call was an Edit of a file that exists, with an old_string
EditOfFile ==
  /\ tcall.name = "Edit"
  /\ IsSome(as_str(tcall.input.file_path))
  /\ Unwrap(as_str(tcall.input.file_path)) \in Paths
  /\ IsSome(tcall.before[Unwrap(as_str(tcall.input.file_path))])
  /\ IsSome(as_str(tcall.input.old_string))
  /\ Unwrap(as_str(tcall.input.old_string)) # <<>>
EditPath == Unwrap(as_str(tcall.input.file_path))
EditOld == Unwrap(as_str(tcall.input.old_string))
EditNew == unwrap_or(as_str(tcall.input.new_string), <<>>)

\* C27: an Edit whose old_string does not occur in the file returns
\* is_error = true and leaves the file system as it was; when it occurs and
\* the file is written, the file is its old content with the first occurrence
\* of old_string replaced by new_string, everything else as it was.
C27_EditFirstOccurrence ==
  EditOfFile =>
    LET old == Unwrap(tcall.before[EditPath])
        at(i) == /\ i + Len(EditOld) - 1 <= Len(old)
                 /\ SubSeq(old, i, i + Len(EditOld) - 1) = EditOld
    IN /\ tcall.out.kind = "return"
       /\ (\A i \in 1..Len(old) : ~at(i)) =>
            tcall.out.result.is_error /\ files = tcall.before
       /\ ((\E i \in 1..Len(old) : at(i)) /\ tcall.io = "ok") =>
            /\ ~tcall.out.result.is_error
            /\ \E i \in 1..Len(old) :
                 /\ at(i)
                 /\ \A j \in 1..(i - 1) : ~at(j)
                 /\ files =
                      [tcall.before EXCEPT ![EditPath] =
                         Some(SubSeq(old, 1, i - 1) \o EditNew
                                \o SubSeq(old, i + Len(EditOld), Len(old)))]

\* the first of the two occurrences of "ab" in "abab" was replaced by "b"
C27_Witness ==
  /\ EditOfFile
  /\ tcall.before[EditPath] = Some(<<"a", "b", "a", "b">>)
  /\ EditOld = <<"a", "b">>
  /\ EditNew = <<"b">>
  /\ ~tcall.out.result.is_error
  /\ files[EditPath] = Some(<<"b", "a", "b">>)

\* an Edit whose old_string is not in the file
EditNotFound ==
  /\ EditOfFile
  /\ tcall.before[EditPath] = Some(<<"a", NL, "b">>)
  /\ EditOld = <<"a", "b">>
  /\ tcall.out.result = ToolResult(Msg("old_string not found in file"), TRUE, {})
  /\ files = tcall.before

\* C26: an exec that runs past its timeout returns the timeout error, which
\* is not the result of an exit (is_error, a timed-out message, no exit code),
\* and from then on its process is not running.
C26_TimeoutKills ==
  (tcall.name = "exec" /\ tcall.out = Return(TimedOut)) =>
    /\ tcall.out.result.is_error
    /\ \A m \in tcall.out.result.metadata : m[1] # "exit_code"
    /\ proc.elapsed >= proc.timeout_secs
    /\ proc.state # "running"

\* the timeout error is returned only past the timeout, and is no exit result
TimeoutDistinct ==
  (tcall.name = "exec" /\ tcall.out.kind = "return") =>
    IF tcall.out = Return(TimedOut)
      THEN proc.elapsed >= proc.timeout_secs
      ELSE \/ tcall.out.result.content # Msg("output")
           \/ \E m \in tcall.out.result.metadata : m[1] = "exit_code"
\* an exec call is pending or has returned a ToolResult
ExecReturns == tcall.name = "exec" => tcall.out.kind \in {"pending", "return"}

\* the default timeout has passed, the call has returned the timeout error,
\* and the process runs on
RunsAfterTimeout ==
  /\ tcall.out = Return(TimedOut)
  /\ proc.timeout_secs = DefaultTimeout
  /\ proc.elapsed = DefaultTimeout + 1
  /\ proc.state = "running"

\* C29: complete() turns the status of the answer into one outcome: 401 and
\* 403 into AuthError, 429 into RateLimited with 1000 times the seconds of
\* retry-after (60000 without a usable header), any other status from 400 on
\* into ApiError with the status and the body, any other status into the
\* parsed CompletionResponse.
C29_StatusOutcome ==
  (completion # NotCalled /\ up_response.sent) =>
    IF up_response.status \in {401, 403} THEN completion.kind = "AuthError"
    ELSE IF up_response.status = 429
      THEN /\ completion.kind = "RateLimited"
           /\ completion.retry_after_ms =
                IF up_response.retry_after[1] = "secs"
                  THEN 1000 * up_response.retry_after[2] ELSE 60000
    ELSE IF up_response.status >= 400
      THEN /\ completion.kind = "ApiError"
           /\ completion.status = up_response.status
           /\ up_response.readable => completion.message = up_response.text
    ELSE (up_response.readable /\ up_response.text = "json")
           => completion.kind = "Ok"

\* the same for the answers whose retry-after, in milliseconds, fits the word
StatusOutcomeInRange ==
  (up_response.status = 429 /\ up_response.retry_after[1] = "secs"
     /\ 1000 * up_response.retry_after[2] > U64Max)
  \/ C29_StatusOutcome

\* a 429 whose retry-after was turned into milliseconds
RateLimitedFromHeader ==
  /\ up_response.sent /\ up_response.status = 429
  /\ up_response.retry_after = Secs(30)
  /\ completion = Outcome("RateLimited", 0, "", 30000)

\* C30: the messages list of the body holds no system-role message and holds
\* the other messages in their order, and the system member of the body
\* carries the content of every system-role message of the history.
C30_SystemExtracted ==
  IsSome(req_body) =>
    LET b == Unwrap(req_body)
        kept == SelectSeq(cmpl_request.messages,
                          LAMBDA m : m.role # "System")
    IN /\ Len(b.messages) = Len(kept)
       /\ \A i \in 1..Len(kept) : b.messages[i].content = kept[i].content
       /\ \A i \in 1..Len(cmpl_request.messages) :
            cmpl_request.messages[i].role = "System" =>
              /\ IsSome(b.system)
              /\ cmpl_request.messages[i].content = Unwrap(b.system)

\* the messages list holds the non-system messages in their order under the
\* roles user and assistant, and the system member is the request's system
BodyKeepsOthers ==
  IsSome(req_body) =>
    LET b == Unwrap(req_body)
        kept == SelectSeq(cmpl_request.messages,
                          LAMBDA m : m.role # "System")
    IN /\ Len(b.messages) = Len(kept)
       /\ \A i \in 1..Len(kept) :
            /\ b.messages[i].content = kept[i].content
            /\ b.messages[i].role =
                 IF kept[i].role = "Assistant" THEN "assistant" ELSE "user"
       /\ b.system = cmpl_request.system

\* a history with a system-role message was built into a body that has no
\* system member
SystemMessageLost ==
  /\ cmpl_request = [system |-> None,
                messages |-> <<[role |-> "System", content |-> "s"],
                               [role |-> "User", content |-> "m"]>>]
  /\ req_body = Some([messages |-> <<[role |-> "user", content |-> "m"]>>,
                  system |-> None])

\* ------------------------------------------------------------------------
\* C31: the config responses of GET /v1/config and of config.get never
\* contain a secret: two gateway states that differ only in a configured
\* secret (the auth token, the password, an API key, a bot token) have the
\* same possible config responses.
\* ------------------------------------------------------------------------
\* the configuration c with its secrets replaced
WithSecrets(c, auth, api_key, bot_token) ==
  [c EXCEPT !.gateway = IF IsSome(@) THEN Some([Unwrap(@) EXCEPT !.auth = auth])
                        ELSE @,
            !.api_key = api_key,
            !.bot_token = bot_token]
\* the responses the route may give on the configuration c
RepliesOf(route, c) ==
  IF route = "http" THEN {get_config(c, o) : o \in KeyOrders(c)}
  ELSE {ws_config_get(c)}
C31_NoSecretInConfig ==
  config_reply.route # "none" =>
    \A auth \in GatewayAuthConfigs, k \in OptSecrets, b \in {None, Some("k1")} :
      config_reply.body
        \in RepliesOf(config_reply.route, WithSecrets(config, auth, k, b))
\* GET /v1/config has answered on a configuration that holds a gateway
\* token, an API key and a bot token
C31_Witness ==
  /\ config_reply.route = "http"
  /\ IsSome(config.gateway)
  /\ IsSome(Unwrap(config.gateway).auth)
  /\ IsSome(Unwrap(Unwrap(config.gateway).auth).token)
  /\ IsSome(config.api_key)
  /\ IsSome(config.bot_token)

\* ------------------------------------------------------------------------
\* C32: every upstream 429, to a streaming call as well as to a
\* non-streaming call, is surfaced as RateLimited carrying retry_after_ms,
\* and every 401 or 403 as AuthError: stream() and complete() classify an
\* error status into the same ProviderError variant.
\* ------------------------------------------------------------------------
\* the variant the claim gives an error status
VariantOf(status) ==
  IF status = 429 THEN "RateLimited"
  ELSE IF status = 401 \/ status = 403 THEN "AuthError"
  ELSE "ApiError"
C32_SameVariant ==
  (up_response.sent /\ up_response.status >= 400) =>
     /\ stream_result # NotCalled =>
          stream_result.kind = VariantOf(up_response.status)
     /\ (stream_result # NotCalled /\ completion # NotCalled
           /\ completion.kind # "panic") =>
          stream_result.kind = completion.kind
\* what holds of stream(): every status from 400 on is an ApiError with
\* that status and the body, and the two calls agree on every error status
\* other than 401, 403 and 429
StreamErrorsAreApiError ==
  (stream_result # NotCalled /\ up_response.sent) =>
     /\ up_response.status >= 400 =>
          stream_result
            = Outcome("ApiError", up_response.status, text(up_response), 0)
     /\ up_response.status < 400 => stream_result.kind = "Ok"
     /\ (completion # NotCalled /\ up_response.status >= 400
           /\ up_response.status \notin {401, 403, 429}) =>
          stream_result = completion
\* a 429 with a retry-after header answered to both calls: complete()
\* returns RateLimited, stream() an ApiError without retry_after_ms
StreamHidesRateLimit ==
  /\ up_response.sent /\ up_response.status = 429
  /\ up_response.retry_after = Secs(30)
  /\ completion = Outcome("RateLimited", 0, "", 30 * MsPerSec)
  /\ stream_result.kind = "ApiError"
  /\ stream_result.retry_after_ms = 0

\* ------------------------------------------------------------------------
\* C33: for every retry-after value that parses as an unsigned 64-bit
\* integer s, complete() returns RateLimited with retry_after_ms equal to
\* 1000 times s exactly: the multiplication never overflows, wraps to a
\* smaller value, or panics.
\* ------------------------------------------------------------------------
\* complete() has answered a 429 whose retry-after header parsed
ParsedRetryAfter ==
  /\ completion # NotCalled
  /\ up_response.sent /\ up_response.status = 429
  /\ IsSome(parse_u64(up_response.retry_after))
C33_ExactProduct ==
  ParsedRetryAfter =>
    completion
      = Outcome("RateLimited", 0, "",
                Unwrap(parse_u64(up_response.retry_after)) * MsPerSec)
\* what holds: the product is exact for every s up to (2^64 - 1) / 1000
ExactProductInRange ==
  (ParsedRetryAfter
     /\ Unwrap(parse_u64(up_response.retry_after)) <= U64Max \div MsPerSec) =>
    completion
      = Outcome("RateLimited", 0, "",
                Unwrap(parse_u64(up_response.retry_after)) * MsPerSec)
\* the two outcomes of a larger s: a wrapped delay, shorter than s seconds,
\* in a build without overflow checks, and a panic in a build with them
RetryAfterWraps ==
  /\ ParsedRetryAfter /\ ~overflow_checks
  /\ completion.kind = "RateLimited"
  /\ completion.retry_after_ms
       < Unwrap(parse_u64(up_response.retry_after))
RetryAfterPanics ==
  /\ ParsedRetryAfter /\ overflow_checks
  /\ completion.kind = "panic"

\* ------------------------------------------------------------------------
\* C34: safe_equal_secret returns false whenever either argument is None or
\* the empty string; in particular an empty presented token is never
\* accepted, even when the expected token is itself empty.
\* ------------------------------------------------------------------------
\* the argument is None or Some("")
Missing(o) == ~IsSome(o) \/ Unwrap(o) = <<>>
C34_RejectsMissing ==
  (sec.pc = "done" /\ (Missing(sec.provided) \/ Missing(sec.expected))) =>
    ~sec.result
\* what holds: None on either side is rejected, and so is an empty string
\* against a non-empty one
RejectsNoneAndOneEmpty ==
  (sec.pc = "done"
     /\ (Missing(sec.provided) \/ Missing(sec.expected))
     /\ ~(sec.provided = Some(<<>>) /\ sec.expected = Some(<<>>))) =>
    ~sec.result
\* the empty string presented against an empty expected secret is accepted
EmptyAccepted ==
  /\ sec.pc = "done"
  /\ sec.provided = Some(<<>>) /\ sec.expected = Some(<<>>)
  /\ sec.result
  /\ safe_equal_secret(Some(<<>>), Some(<<>>))

\* ------------------------------------------------------------------------
\* C35: every tool that register_builtins registers, and that
\* list_definitions therefore advertises when policy allows it, is
\* dispatched by execute_tool: execute_tool never answers "Unknown tool"
\* for the name of a registered built-in.
\* ------------------------------------------------------------------------
UnknownTool == Return(ToolResult(Msg("Unknown tool"), TRUE, {}))
C35_BuiltinsDispatched ==
  (tcall.n = 1 /\ tcall.name \in Names(registered)) => tcall.out # UnknownTool
\* what holds: the four names with an arm in execute_tool are dispatched
ArmsDispatched ==
  (tcall.n = 1 /\ tcall.name \in {"Read", "Write", "Edit", "exec"}) =>
    tcall.out # UnknownTool
\* web_search is registered, advertised, and answered with "Unknown tool"
UnknownBuiltin ==
  /\ tcall.n = 1 /\ tcall.name = "web_search"
  /\ "web_search" \in Advertised
  /\ tcall.out = UnknownTool

\* ------------------------------------------------------------------------
\* C36: every streaming call whose event channel closes has delivered
\* MessageStop or Error as its final event: whenever the upstream byte
\* stream ends, with or without a terminating record, the consumer can tell
\* a completed stream from a truncated one.
\* ------------------------------------------------------------------------
\* the consumer has seen the channel closed
ChannelClosed == rx = "ended"
\* the last event received is a MessageStop or an Error
EndMarked ==
  /\ received # <<>>
  /\ received[Len(received)].type \in {"MessageStop", "Error"}
C36_ClosedStreamMarked == ChannelClosed => EndMarked
\* what holds: the end is marked when the body ends in a network error, when
\* it holds a [DONE] record, or when its last record is a message_stop
MarkedWhenTerminated ==
  (ChannelClosed
     /\ \/ uend = "error"
        \/ FirstDone > 0
        \/ (records # <<>> /\ records[Len(records)] = MessageStopRecord)) =>
    EndMarked
\* the body ended after a ping record, without a terminating record, and
\* the channel closed on the Ping
TruncatedUnmarked ==
  /\ ChannelClosed
  /\ uend = "eof"
  /\ records = <<PingRecord>>
  /\ received = <<Event("Ping", None)>>

\* ------------------------------------------------------------------------
\* C37: each event: line gives rise to at most one emitted StreamEvent: the
\* pending event type is consumed by the data: line that follows it, so a
\* data: line not preceded by an event: line since the previous data: line
\* emits nothing, and the number of events emitted never exceeds the number
\* of event: lines received (not counting the MessageStop of a [DONE]).
\* ------------------------------------------------------------------------
\* the records the task processes: those before the first [DONE]
Processed ==
  IF FirstDone > 0 THEN SubSeq(records, 1, FirstDone - 1) ELSE records
DoneStop == IF FirstDone > 0 THEN <<MessageStop>> ELSE <<>>
\* the number of event: lines among records
RECURSIVE EventLines(_)
EventLines(recs) ==
  IF recs = <<>> THEN 0
  ELSE (IF IsSome(Head(recs).event) THEN 1 ELSE 0) + EventLines(Tail(recs))
C37_OneEventPerEventLine ==
  rx # "dropped" =>
    /\ IsPrefix(Emitted, ExpectedEvents(Processed) \o DoneStop)
    /\ Len(Emitted) <= EventLines(Processed) + Len(DoneStop)
\* the events of records read with an event type that stays set: a record
\* without an event: line is given the type of the last event: line before
RECURSIVE StickyEvents(_, _)
StickyEvents(recs, type) ==
  IF recs = <<>> THEN <<>>
  ELSE LET rec == Head(recs)
           t == IF IsSome(rec.event) THEN Unwrap(rec.event) ELSE type
           ev == IF IsSome(from_str(rec.data))
                   THEN EventFor(t, Unwrap(from_str(rec.data))) ELSE None
       IN (IF IsSome(ev) THEN <<Unwrap(ev)>> ELSE <<>>)
            \o StickyEvents(Tail(recs), t)
\* what holds: the events emitted are those of the sticky reading
DataLineReusesType ==
  rx # "dropped" =>
    /\ IsPrefix(Emitted, StickyEvents(Processed, <<>>) \o DoneStop)
    /\ ppc = "done" => Emitted = StickyEvents(Processed, <<>>) \o DoneStop
\* one event: line, two data: lines, two events
DataOnlyEmits ==
  /\ records = <<PingRecord, DataOnlyRecord>>
  /\ received = <<Event("Ping", None), Event("Ping", None)>>

\* ------------------------------------------------------------------------
\* C38: after any sequence and interleaving of start() and stop() calls, at
\* most one tick-loop task is alive at a time, and after a stop() that is
\* not followed by a start() the running loop terminates within one tick.
\* ------------------------------------------------------------------------
AliveLoops == {l \in Loops : Alive(l)}
\* while `running` is false no loop completes more than one sleep
EndsWithinATick ==
  ~cron_running => \A l \in AliveLoops : cron_loops[l].quiet <= 1
C38_OneTickLoop ==
  /\ Cardinality(AliveLoops) <= 1
  /\ EndsWithinATick
\* what holds: a loop ends at its first test after a stop that no start
\* follows, and a start spawns nothing while `running` is true
StoppedLoopsEnd ==
  /\ EndsWithinATick
  /\ [][cron_running => (AliveLoops' \subseteq AliveLoops)]_vars
\* start, stop and start again during the sleep of the first loop: the
\* first loop finds `running` true at its next test and two loops sleep
TwoLoopsAlive ==
  /\ cron_running
  /\ cron_loops[1].pc = "sleep"
  /\ cron_loops[2].pc = "sleep"

\* ------------------------------------------------------------------------
\* C40: build_session_key is injective: two different (agent_id, channel,
\* chat_id) triples never yield the same session key, for all identifier
\* strings including ones that contain the ':' separator.
\* ------------------------------------------------------------------------
C40_KeyInjective ==
  IsSome(session_keys) =>
    (key_args[1] # key_args[2]
       => Unwrap(session_keys)[1] # Unwrap(session_keys)[2])
\* the identifier contains the separator
HasSeparator(id) == \E i \in 1..Len(id) : id[i] = ":"
\* what holds: the keys of two identities differ when no agent_id and no
\* channel among them contains ':'
InjectiveWithoutSeparator ==
  (IsSome(session_keys)
     /\ \A i \in 1..2 : /\ ~HasSeparator(key_args[i].agent_id)
                        /\ ~HasSeparator(key_args[i].channel)) =>
    (key_args[1] # key_args[2]
       => Unwrap(session_keys)[1] # Unwrap(session_keys)[2])
\* two conversations, one key
SharedSessionKey ==
  /\ IsSome(session_keys)
  /\ key_args[1] = [agent_id |-> <<":">>, channel |-> <<>>, chat_id |-> <<"a">>]
  /\ key_args[2] = [agent_id |-> <<>>, channel |-> <<":">>, chat_id |-> <<"a">>]
  /\ Unwrap(session_keys)[1] = Unwrap(session_keys)[2]

\* ------------------------------------------------------------------------
\* C39: under any interleaving of concurrent HTTP handlers, WebSocket
\* method handlers, session-store operations and tool registrations, no task
\* waits forever for a lock: with fair scheduling and fair, writer-preferring
\* reader-writer locks, every started operation eventually completes and
\* releases every lock it took.
\* ------------------------------------------------------------------------
C39_OperationsComplete ==
  \A t \in LiveTasks :
    (running_ops[t].op # "") ~> (running_ops[t].op = "" /\ HeldBy(t) = {})
\* status holds its config guard and waits for the session map behind a
\* writer of the session map
C39_Witness ==
  \E t, u \in LiveTasks :
    /\ running_ops[t].op = "status"
    /\ running_ops[t].waiting
    /\ HeldBy(t) = {"config"}
    /\ fair_locks["sessions"].queue = <<<<t, "read">>>>
    /\ running_ops[u].op = "get_or_create"
    /\ fair_locks["sessions"].writer = Some(u)

====
